---- MODULE Spec2Model ----
(***************************************************************************)
(* Room synchronisation of the GameRoom component                          *)
(* (never-have-i-ever-client/src/components/game/GameRoom.js) and the      *)
(* bonus classification of Timer.js.                                       *)
(*                                                                         *)
(* The component is a React function component.  Its state cells are the   *)
(* variables below.  A handler runs to completion; what it schedules       *)
(* (the continuation after an await, a setTimeout callback) runs later     *)
(* with the values its closure captured, so every outstanding request and  *)
(* every pending timer carries those captured values.                      *)
(*                                                                         *)
(* The room server and the socket server are collaborators outside the     *)
(* component.  They are modelled by `server`: the authoritative room, whose*)
(* round, answers and points only grow.  A push event can be delivered     *)
(* once the server fact it reports exists, any number of times, in any     *)
(* order.                                                                  *)
(***************************************************************************)
EXTENDS Integers, Sequences, FiniteSets, Bags, TLC

\* ------------------------------------------------------------------ bounds
MaxRounds == 2
MaxFetches == 2
MaxTimers == 2
MaxFailures == 1
MaxOverlaps == 1
MaxElapsedMs == 15100

\* --------------------------------------------------------------- constants
Self == "u1"
Users == {"u1", "u2"}
NoQuestion == 0
ReadingDelayMs == 3000
ResultsDelayMs == 500
QuickLimitMs == 3000
BestBonusLimitMs == 5000
BonusLimitMs == 15000
TimerBestBonusLimitMs == 5000
TimerBonusLimitMs == 15000

VARIABLES
  server,           \* the authoritative room held by the collaborator
  room,             \* useState(null): the snapshot
  roundResults,     \* useState(null)
  hasAnswered,      \* useState(false)
  canAnswer,        \* useState(false)
  isTransitioning,  \* useState(false)
  isLoading,        \* useState(true)
  error,            \* useState(null), as "is set"
  fetchInProgress,  \* fetchInProgressRef.current (isRefreshing mirrors it)
  cbResults,        \* roundResults as seen by the current fetchRoomDetails
  fetches,          \* outstanding GET /rooms/:id, in issue order
  submit,           \* the outstanding POST /rooms/:id/answers of handleAnswer
  timers,           \* pending setTimeout callbacks, in creation order
  crashed,          \* a state updater or the render threw: the view is gone
  failures,         \* the number of requests the transport has failed
  overlaps,         \* the number of operations started while another was pending
  last,             \* the step taken last (history)
  elapsedMs,        \* Timer.js / handleAnswer: time since questionStartTime
  elapsedTime,      \* Timer.js: useState(0), the elapsed time last sampled (ms)
  feedback,         \* handleAnswer: the tier of the feedback toast
  now,              \* Date.now(), in whole seconds
  questionStartTime,\* useState(null), in whole seconds
  isHost,           \* room.host._id === currentUser._id
  hostReq,          \* the outstanding POST of handleStartGame / handleNextRound
  emitted,          \* the number of socket events this client has emitted
  sinceUpdate,      \* Date.now() - lastPollingUpdate (ms), as far as it matters
  fetchTimeout,     \* fetchTimeoutRef.current: the pending timeout of scheduleNextFetch
  view,             \* the page shown: the room list, the join page or the room
  roomType,         \* room.type
  inRoom,           \* isUserInRoom()
  passcode,         \* useState('')
  isJoining,        \* useState(false)
  joinCalls,        \* the passcodes of the POST /rooms/:id/join issued so far
  players           \* room.players, as the users of the snapshot

vars == <<server, room, roundResults, hasAnswered, canAnswer, isTransitioning,
          isLoading, error, fetchInProgress, cbResults, fetches, submit,
          timers, crashed, failures, overlaps, last, elapsedMs, elapsedTime, feedback,
          now, questionStartTime, isHost, hostReq, emitted, sinceUpdate,
          fetchTimeout, view, roomType, inRoom, passcode, isJoining, joinCalls,
          players>>

tierVars == <<elapsedMs, elapsedTime, feedback>>

\* the cells of the timed rounds
roundVars == <<now, questionStartTime, isHost, hostReq, emitted>>

\* the cells of the polling schedule
pollVars == <<sinceUpdate, fetchTimeout>>

\* the cells of the join controls
joinVars == <<view, roomType, inRoom, passcode, isJoining, joinCalls>>

\* the cells that the room synchronisation leaves alone
auxVars == <<roundVars, pollVars, joinVars, players>>

\* the cells that the timed rounds leave alone
restVars == <<tierVars, pollVars, joinVars, players>>

\* ------------------------------------------------------------------- facts
Fact(u, q, r, a) == [user |-> u, question |-> q, round |-> r, answer |-> a]

QuestionOf(r) == r

\* A player's answer to a question is a fact about the player: the first
\* question is answered yes by both, the later ones yes by the other player only.
Truth(u, q) == (u # Self) \/ (q = QuestionOf(1))

\* filter(a => a.question === q && a.round === r).length on an array (a bag)
CountFor(answers, q, r) ==
  BagCardinality([f \in {g \in BagToSet(answers) :
                          g.question = q /\ g.round = r} |-> answers[f]])

YesCountFor(answers, q, r) ==
  BagCardinality([f \in {g \in BagToSet(answers) :
                          g.question = q /\ g.round = r /\ g.answer = TRUE}
                    |-> answers[f]])

\* the number of array elements with the key (u, q, r)
CopiesOfKey(answers, u, q, r) ==
  BagCardinality([f \in {g \in BagToSet(answers) :
                          g.user = u /\ g.question = q /\ g.round = r}
                    |-> answers[f]])

\* ------------------------------------------------------------------ server
\* A request the collaborator has not answered yet.
Pending == [status |-> "pending", round |-> 1, answers |-> {}]

ServerAnswered(s, u, r) == \E f \in s.answers : f.user = u /\ f.round = r

ServerAllAnswered(s, r) == \A u \in Users : ServerAnswered(s, u, r)

\* points only grow: one point for every answer the server has recorded
ServerPoints(s, u) == Cardinality({f \in s.answers : f.user = u})

\* response.data of GET /rooms/:id.  currentQuestion is present iff the
\* room is playing.
ResponseData(d) ==
  [status |-> d.status,
   currentRound |-> d.round,
   currentQuestion |-> IF d.status = "playing" THEN QuestionOf(d.round)
                       ELSE NoQuestion,
   points |-> [u \in Users |-> ServerPoints(d, u)],
   answers |-> SetToBag(d.answers)]

\* ---------------------------------------------------------------- snapshot
NullRoom ==
  [status |-> "null", currentRound |-> 0, currentQuestion |-> NoQuestion,
   points |-> [u \in Users |-> 0], answers |-> EmptyBag]

NoResults == [set |-> FALSE, yesCount |-> 0, noCount |-> 0, question |-> NoQuestion]

Results(y, n, q) == [set |-> TRUE, yesCount |-> y, noCount |-> n, question |-> q]

\* a merge that adds the response's answers to the local ones
MergeResponseKeepingAnswers(prev, data) ==
  IF prev.status = "null" THEN data
  ELSE [data EXCEPT !.answers = prev.answers (+) data.answers]

\* setRoom(prev => ...) of fetchRoomDetails: response.data.answers is an
\* array (truthy) in every response, so it replaces prev.answers; a waiting
\* room's response carries no currentQuestion, so prev's stays.
MergeResponse(prev, data) ==
  IF prev.status = "null" THEN data
  ELSE [data EXCEPT !.currentQuestion =
          IF data.status = "playing" THEN @ ELSE prev.currentQuestion]

\* response.data.answers?.some(a => a.user === currentUser._id && ...)
UserAnsweredCurrentQuestion(data) ==
  CopiesOfKey(data.answers, Self, data.currentQuestion, data.currentRound) > 0

\* prevRoom differs from the response in question or round
QuestionChanged(cl, data) ==
  \/ ~cl.has
  \/ cl.q # data.currentQuestion
  \/ cl.r # data.currentRound

AllAnswered(answers, q, r) ==
  /\ CountFor(answers, q, r) = Cardinality(Users)
  /\ Cardinality(Users) > 0

\* a summary with the two counts exchanged
SummarySwapped(answers, q, r) ==
  Results(CountFor(answers, q, r) - YesCountFor(answers, q, r),
          YesCountFor(answers, q, r), q)

\* yesAnswers, noAnswers = answerCount - yesAnswers, and the question
Summary(answers, q, r) ==
  Results(YesCountFor(answers, q, r),
          CountFor(answers, q, r) - YesCountFor(answers, q, r), q)

\* ---------------------------------------------------------------- closures
\* What a fetchRoomDetails instance captured: room (prevRoom), isTransitioning
\* and roundResults.
NoClosure == [has |-> FALSE, q |-> NoQuestion, r |-> 0, trans |-> FALSE, rr |-> FALSE]

CurrentClosure ==
  [has |-> room.status # "null", q |-> room.currentQuestion,
   r |-> room.currentRound, trans |-> isTransitioning, rr |-> cbResults]

\* useCallback(..., [roomId, currentUser, room, isLoading, isTransitioning]):
\* a new instance, seeing the new roundResults, only when one of these changed.
CbRefresh(roomChanged) ==
  cbResults' = IF roomChanged \/ isTransitioning' # isTransitioning
                  \/ isLoading' # isLoading
               THEN roundResults'.set ELSE cbResults

\* a continuation that never starts a reading period
RearmNever(cl, data) == FALSE

\* What the continuation of fetchRoomDetails decides from its closure and the
\* response: `if (questionChanged && !isTransitioning)` ...
Rearm(cl, data) ==
  /\ data.status = "playing"
  /\ QuestionChanged(cl, data)
  /\ ~cl.trans

\* ... and `if (allAnswered && !roundResults && !isTransitioning)`
ComputeResults(cl, data) ==
  /\ data.status = "playing"
  /\ ~cl.trans
  /\ ~cl.rr
  /\ AllAnswered(data.answers, data.currentQuestion, data.currentRound)

\* An outstanding GET /rooms/:id: the closure of the instance that issued it
\* until the response exists, then the response and what the closure makes
\* the continuation do with it.
Request(cl) == [cl |-> cl, resp |-> Pending, rearm |-> FALSE, compute |-> FALSE]

Response(cl, s) ==
  [cl |-> NoClosure, resp |-> s, rearm |-> Rearm(cl, ResponseData(s)),
   compute |-> ComputeResults(cl, ResponseData(s))]

\* The snapshot holds a fact of another player that the response s carries
\* and that no poll response brought: a response brings a player's facts
\* together with as many points.
PushedFactIn(prev, s) ==
  \E f \in s.answers :
    /\ f.user # Self
    /\ BagIn(f, prev.answers)
    /\ prev.points[f.user] <
         BagCardinality([g \in {h \in BagToSet(prev.answers) : h.user = f.user}
                          |-> prev.answers[g]])

Note(op) == [op |-> op, u |-> "-", a |-> FALSE, dup |-> FALSE]

RemoveAt(s, i) == SubSeq(s, 1, i - 1) \o SubSeq(s, i + 1, Len(s))

\* before: hasAnswered as it was when handleAnswer was called
NoSubmit == [stage |-> "idle", answer |-> FALSE, round |-> 0, before |-> FALSE]

Timer(kind, cl, res) == [kind |-> kind, cl |-> cl, res |-> res]

Delay(kind) == IF kind = "results" THEN ResultsDelayMs ELSE ReadingDelayMs

\* A timer fires before every timer created later with the same or a longer delay.
CanFire(i) == \A j \in 1..(i - 1) : Delay(timers[j].kind) > Delay(timers[i].kind)

\* questionStartTime is null
NoTime == -1

NoHostRequest ==
  [kind |-> "none", stage |-> "idle", round |-> 0, rr |-> NoResults,
   has |-> FALSE, resp |-> Pending]

\* the timed rounds at rest: no question shown yet, no host request
RoundsIdle ==
  /\ now = 0
  /\ questionStartTime = NoTime
  /\ isHost = FALSE
  /\ hostReq = NoHostRequest
  /\ emitted = 0

\* fetchTimeoutRef.current is null; a pending timeout carries what the
\* fetchRoomDetails instance of its render captured
NoTimeout == [set |-> FALSE, cl |-> NoClosure]

\* the polling schedule at rest: the snapshot has just been updated
PollIdle ==
  /\ sinceUpdate = 0
  /\ fetchTimeout = NoTimeout

\* the user is a player of the public room shown
JoinIdle ==
  /\ view = "room"
  /\ roomType = "public"
  /\ inRoom = TRUE
  /\ passcode = ""
  /\ isJoining = FALSE
  /\ joinCalls = <<>>

AuxInit == RoundsIdle /\ PollIdle /\ JoinIdle /\ players = Users

\* -------------------------------------------------------------------- Init
Init ==
  /\ server = [status |-> "waiting", round |-> 1, answers |-> {}]
  /\ room = NullRoom
  /\ roundResults = NoResults
  /\ hasAnswered = FALSE
  /\ canAnswer = FALSE
  /\ isTransitioning = FALSE
  /\ isLoading = TRUE
  /\ error = FALSE
  /\ fetchInProgress = TRUE
  /\ cbResults = FALSE
  /\ fetches = <<Request(NoClosure)>>
  /\ submit = NoSubmit
  /\ timers = <<>>
  /\ crashed = FALSE
  /\ failures = 0
  /\ overlaps = 0
  /\ last = Note("other")
  /\ elapsedMs = 0
  /\ elapsedTime = 0
  /\ feedback = "none"
  /\ AuxInit

Alive == ~crashed

\* the requests and timers outstanding
PendingCount ==
  Len(fetches) + Len(timers) + (IF submit.stage = "idle" THEN 0 ELSE 1)
    + (IF hostReq.kind = "none" THEN 0 ELSE 1)

\* A handler starts a request or a timer on top of the outstanding ones.
StartAsync ==
  IF PendingCount >= 1
  THEN overlaps < MaxOverlaps /\ overlaps' = overlaps + 1
  ELSE overlaps' = overlaps

\* A handler starts nothing, or a continuation starts the operation that
\* takes its place.
NoAsync == overlaps' = overlaps

\* ------------------------------------------------------ the collaborators
\* Another client's host starts the game.
ServerStartGame ==
  /\ Alive
  /\ server.status = "waiting"
  /\ server' = [server EXCEPT !.status = "playing", !.round = 1]
  /\ last' = Note("other")
  /\ UNCHANGED <<room, roundResults, hasAnswered, canAnswer, isTransitioning,
                 isLoading, error, fetchInProgress, cbResults, fetches, submit,
                 timers, crashed, failures, overlaps, tierVars, auxVars>>

\* Another player's answer is recorded (first writer wins on the server).
ServerRecordAnswer(u, a) ==
  /\ Alive
  /\ u # Self
  /\ a = Truth(u, QuestionOf(server.round))
  /\ server.status = "playing"
  /\ ~ServerAnswered(server, u, server.round)
  /\ server' = [server EXCEPT !.answers =
                  @ \cup {Fact(u, QuestionOf(server.round), server.round, a)}]
  /\ last' = Note("other")
  /\ UNCHANGED <<room, roundResults, hasAnswered, canAnswer, isTransitioning,
                 isLoading, error, fetchInProgress, cbResults, fetches, submit,
                 timers, crashed, failures, overlaps, tierVars, auxVars>>

\* The host advances the round once every player has answered.
ServerNextRound ==
  /\ Alive
  /\ server.status = "playing"
  /\ server.round < MaxRounds
  /\ ServerAllAnswered(server, server.round)
  /\ server' = [server EXCEPT !.round = @ + 1]
  /\ last' = Note("other")
  /\ UNCHANGED <<room, roundResults, hasAnswered, canAnswer, isTransitioning,
                 isLoading, error, fetchInProgress, cbResults, fetches, submit,
                 timers, crashed, failures, overlaps, tierVars, auxVars>>

\* The server answers GET /rooms/:id with its room as of now.
ServerRespond(i) ==
  /\ Alive
  /\ i \in 1..Len(fetches)
  /\ fetches[i].resp = Pending
  /\ fetches' = [fetches EXCEPT ![i] = Response(fetches[i].cl, server)]
  /\ last' = Note("other")
  /\ UNCHANGED <<server, room, roundResults, hasAnswered, canAnswer,
                 isTransitioning, isLoading, error, fetchInProgress, cbResults,
                 submit, timers, crashed, failures, overlaps, tierVars, auxVars>>

\* --------------------------------------------------------- fetchRoomDetails
\* fetchRoomDetails(force) up to the await, called on the instance that
\* captured cl.  The guards of a non-forced call are those of its caller.
IssueFetch(cl) ==
  /\ Len(fetches) < MaxFetches
  /\ fetches' = Append(fetches, Request(cl))
  /\ fetchInProgress' = TRUE
  /\ isLoading' = (isLoading \/ ~cl.has)

\* The continuation of fetchRoomDetails after a response arrived.
FetchRoomDetailsSuccess(i) ==
  /\ Alive
  /\ i \in 1..Len(fetches)
  /\ fetches[i].resp # Pending
  /\ LET data == ResponseData(fetches[i].resp)
         playing == data.status = "playing"
         rearm == fetches[i].rearm
         compute == fetches[i].compute
     IN /\ rearm => Len(timers) < MaxTimers
        /\ room' = MergeResponse(room, data)
        /\ hasAnswered' = IF playing THEN UserAnsweredCurrentQuestion(data)
                          ELSE hasAnswered
        /\ canAnswer' = IF rearm THEN FALSE ELSE canAnswer
        /\ timers' = IF rearm
                     THEN Append(timers, Timer("canAnswer", NoClosure, NoResults))
                     ELSE timers
        /\ roundResults' =
             IF compute
             THEN Summary(data.answers, data.currentQuestion, data.currentRound)
             ELSE IF rearm THEN NoResults ELSE roundResults
        /\ last' = IF PushedFactIn(room, fetches[i].resp)
                   THEN [Note("poll-merge") EXCEPT !.dup = TRUE]
                   ELSE Note("other")
  /\ fetches' = RemoveAt(fetches, i)
  /\ isLoading' = FALSE
  /\ fetchInProgress' = FALSE
  /\ UNCHANGED <<server, isTransitioning, error, submit, crashed, failures, tierVars, auxVars>>
  /\ NoAsync
  /\ CbRefresh(TRUE)

\* The catch block of fetchRoomDetails, on the room and isTransitioning its
\* closure captured: setError, or toast.error, or nothing.
FailureReport(cl) ==
  IF ~cl.has THEN "load-error"
  ELSE IF ~cl.trans THEN "refresh-warning"
  ELSE "silent"

\* a catch block that discards the snapshot
FetchRoomDetailsFailureResetting(i) ==
  /\ Alive
  /\ i \in 1..Len(fetches)
  /\ fetches[i].resp = Pending
  /\ failures < MaxFailures
  /\ failures' = failures + 1
  /\ error' = (error \/ ~fetches[i].cl.has)
  /\ room' = NullRoom
  /\ fetches' = RemoveAt(fetches, i)
  /\ isLoading' = FALSE
  /\ fetchInProgress' = FALSE
  /\ last' = Note(FailureReport(fetches[i].cl))
  /\ UNCHANGED <<server, roundResults, hasAnswered, canAnswer,
                 isTransitioning, submit, timers, crashed, overlaps, tierVars, auxVars>>
  /\ CbRefresh(TRUE)

\* The catch and finally blocks of fetchRoomDetails after a transport error.
FetchRoomDetailsFailure(i) ==
  /\ Alive
  /\ i \in 1..Len(fetches)
  /\ fetches[i].resp = Pending
  /\ failures < MaxFailures
  /\ failures' = failures + 1
  /\ error' = (error \/ ~fetches[i].cl.has)
  /\ fetches' = RemoveAt(fetches, i)
  /\ isLoading' = FALSE
  /\ fetchInProgress' = FALSE
  /\ last' = Note(FailureReport(fetches[i].cl))
  /\ UNCHANGED <<server, room, roundResults, hasAnswered, canAnswer,
                 isTransitioning, submit, timers, crashed, overlaps, tierVars, auxVars>>
  /\ CbRefresh(FALSE)

\* The polling effect's 5 s interval (or the scheduled timeout) finds a poll
\* due and calls fetchRoomDetails(): not refreshing, not in transition.
ScheduledPoll ==
  /\ Alive
  /\ ~fetchInProgress
  /\ ~isTransitioning
  /\ IssueFetch(CurrentClosure)
  /\ last' = Note("other")
  /\ UNCHANGED <<server, room, roundResults, hasAnswered, canAnswer,
                 isTransitioning, error, submit, timers, crashed, failures, tierVars, auxVars>>
  /\ StartAsync
  /\ CbRefresh(FALSE)

\* socketHandlers 'player-joined', 'player-left', 'host-changed'
OnMembershipEvent(e) ==
  /\ Alive
  /\ e \in {"player-joined", "player-left", "host-changed"}
  /\ IssueFetch(CurrentClosure)
  /\ last' = Note("other")
  /\ UNCHANGED <<server, room, roundResults, hasAnswered, canAnswer,
                 isTransitioning, error, submit, timers, crashed, failures, tierVars, auxVars>>
  /\ StartAsync
  /\ CbRefresh(FALSE)

\* ------------------------------------------------------- socket: the rounds
\* The body shared by 'game-started' and 'round-started': the transition flag,
\* the resets, the merge of round and question, and the 3 s timer whose
\* callback calls the fetchRoomDetails instance of this render.
StartTransition(status, r) ==
  IF room.status = "null"
  THEN \* setRoom spreads null: the snapshot has no players and the render
       \* throws on room.players.length
       /\ crashed' = TRUE
       /\ UNCHANGED <<room, roundResults, hasAnswered, canAnswer,
                      isTransitioning, timers, cbResults, overlaps>>
  ELSE /\ Len(timers) < MaxTimers
       /\ isTransitioning' = TRUE
       /\ hasAnswered' = FALSE
       /\ roundResults' = NoResults
       /\ canAnswer' = FALSE
       /\ room' = [room EXCEPT !.status = status, !.currentRound = r,
                               !.currentQuestion = QuestionOf(r)]
       /\ timers' = Append(timers, Timer("transition", CurrentClosure, NoResults))
       /\ crashed' = FALSE
       /\ cbResults' = FALSE
       /\ StartAsync

\* socketHandlers['game-started']
OnGameStarted ==
  /\ Alive
  /\ server.status = "playing"
  /\ StartTransition("playing", 1)
  /\ last' = Note("other")
  /\ UNCHANGED <<server, isLoading, error, fetchInProgress, fetches, submit,
                 failures, tierVars, auxVars>>

\* socketHandlers['round-started']
OnRoundStarted(r) ==
  /\ Alive
  /\ r \in 2..server.round
  /\ StartTransition(room.status, r)
  /\ last' = Note("other")
  /\ UNCHANGED <<server, isLoading, error, fetchInProgress, fetches, submit,
                 failures, tierVars, auxVars>>

\* ------------------------------------------------------ socket: the answers
\* prev.answers?.some(a => a.user === data.userId && a.question === ... )
AnswerExists(prev, u) ==
  CopiesOfKey(prev.answers, u, prev.currentQuestion, prev.currentRound) > 0

\* updatedAnswers of the 'player-answered' updater
UpdatedAnswers(prev, u, a) ==
  prev.answers (+) SetToBag({Fact(u, prev.currentQuestion, prev.currentRound, a)})

\* an updater that stores every delivery
PlayerAnsweredAppend(prev, u, a) ==
  [prev EXCEPT !.answers = UpdatedAnswers(prev, u, a)]

\* setRoom(prev => ...) of 'player-answered': what the updater returns
PlayerAnswered(prev, u, a) ==
  IF AnswerExists(prev, u) THEN prev
  ELSE [prev EXCEPT !.answers = UpdatedAnswers(prev, u, a)]

\* The server has emitted 'player-answered' {userId: u, answer: a}: it relays
\* the submit-answer event a client emits after its request succeeded.
Emitted(u, a) ==
  \E f \in server.answers :
    /\ f.user = u
    /\ f.answer = a
    /\ u = Self => ~(submit.stage = "ok" /\ submit.round = f.round)

\* socketHandlers['player-answered']
OnPlayerAnswered(u, a) ==
  /\ Alive
  /\ Emitted(u, a)
  /\ IF room.status = "null"
     THEN /\ last' = Note("other")
          /\ UNCHANGED <<room, timers, crashed, cbResults, overlaps>>
     ELSE IF room.currentQuestion = NoQuestion
     THEN \* prev.currentQuestion._id throws inside the updater
          /\ crashed' = TRUE
          /\ last' = Note("other")
          /\ UNCHANGED <<room, timers, cbResults, overlaps>>
     ELSE IF AnswerExists(room, u)
     THEN /\ room' = PlayerAnswered(room, u, a)
          /\ last' = IF BagIn(Fact(u, room.currentQuestion, room.currentRound, ~a),
                               room.answers)
                      THEN [Note("player-answered") EXCEPT !.u = u, !.a = a,
                                                           !.dup = TRUE]
                      ELSE Note("other")
          /\ UNCHANGED <<timers, crashed, cbResults, overlaps>>
     ELSE LET updated == UpdatedAnswers(room, u, a)
              q == room.currentQuestion
              r == room.currentRound
              all == AllAnswered(updated, q, r) /\ ~roundResults.set
          IN /\ all => Len(timers) < MaxTimers
             /\ room' = PlayerAnswered(room, u, a)
             /\ timers' = IF all
                          THEN Append(timers, Timer("results", NoClosure,
                                                    Summary(updated, q, r)))
                          ELSE timers
             /\ cbResults' = roundResults.set
             /\ last' = Note("other")
             /\ UNCHANGED crashed
             /\ IF all THEN StartAsync ELSE NoAsync
  /\ UNCHANGED <<server, roundResults, hasAnswered, canAnswer, isTransitioning,
                 isLoading, error, fetchInProgress, fetches, submit, failures,
                 tierVars, auxVars>>

\* socketHandlers['all-players-answered'] with the server's summary of round r
OnAllPlayersAnswered(r) ==
  /\ Alive
  /\ r \in 1..server.round
  /\ server.status = "playing"
  /\ ServerAllAnswered(server, r)
  /\ roundResults' = Summary(SetToBag(server.answers), QuestionOf(r), r)
  /\ last' = Note("other")
  /\ UNCHANGED <<server, room, hasAnswered, canAnswer, isTransitioning,
                 isLoading, error, fetchInProgress, cbResults, fetches, submit,
                 timers, crashed, failures, overlaps, tierVars, auxVars>>

\* ------------------------------------------------------------------ timers
\* A setTimeout callback runs.
TimerFires(i) ==
  /\ Alive
  /\ i \in 1..Len(timers)
  /\ CanFire(i)
  /\ LET t == timers[i]
     IN \/ /\ t.kind = "canAnswer"       \* fetchRoomDetails, 3 s after a change
           /\ canAnswer' = TRUE
           /\ UNCHANGED <<roundResults, isTransitioning, isLoading,
                          fetchInProgress, fetches, cbResults, overlaps>>
        \/ /\ t.kind = "results"         \* 'player-answered', after 500 ms
           /\ roundResults' = t.res
           /\ UNCHANGED <<canAnswer, isTransitioning, isLoading,
                          fetchInProgress, fetches, cbResults, overlaps>>
        \/ /\ t.kind = "transition"      \* 'game-started' / 'round-started'
           /\ canAnswer' = TRUE
           /\ isTransitioning' = FALSE
           /\ IssueFetch(t.cl)
           /\ NoAsync
           /\ UNCHANGED roundResults
           /\ CbRefresh(FALSE)
  /\ timers' = RemoveAt(timers, i)
  /\ last' = Note("other")
  /\ UNCHANGED <<server, room, hasAnswered, error, submit, crashed, failures, tierVars, auxVars>>

\* ------------------------------------------------------------ handleAnswer
\* The Question buttons are rendered and enabled.
AnswerEnabled ==
  /\ room.status = "playing"
  /\ room.currentQuestion # NoQuestion
  /\ ~roundResults.set
  /\ ~hasAnswered
  /\ canAnswer
  /\ ~isTransitioning

\* handleAnswer(answer) up to the await of the POST
HandleAnswer(a) ==
  /\ Alive
  /\ AnswerEnabled
  /\ a = Truth(Self, room.currentQuestion)
  /\ submit.stage = "idle"
  /\ hasAnswered' = TRUE
  /\ submit' = [stage |-> "sent", answer |-> a, round |-> 0,
                before |-> hasAnswered]
  /\ last' = Note("other")
  /\ UNCHANGED <<server, room, roundResults, canAnswer, isTransitioning,
                 isLoading, error, fetchInProgress, cbResults, fetches, timers,
                 crashed, failures, tierVars, auxVars>>
  /\ StartAsync

\* The server records the submitted answer for its current round.
ServerRecordSubmit ==
  /\ Alive
  /\ submit.stage = "sent"
  /\ server.status = "playing"
  /\ ~ServerAnswered(server, Self, server.round)
  /\ server' = [server EXCEPT !.answers =
                  @ \cup {Fact(Self, QuestionOf(server.round), server.round,
                               submit.answer)}]
  /\ submit' = [submit EXCEPT !.stage = "ok", !.round = server.round]
  /\ last' = Note("other")
  /\ UNCHANGED <<room, roundResults, hasAnswered, canAnswer, isTransitioning,
                 isLoading, error, fetchInProgress, cbResults, fetches, timers,
                 crashed, failures, overlaps, tierVars, auxVars>>

\* setRoom(prev => ...) of handleAnswer: the fact is appended unconditionally
AppendOwnAnswer(prev, a) ==
  [prev EXCEPT !.answers =
     @ (+) SetToBag({Fact(Self, prev.currentQuestion, prev.currentRound, a)})]

\* handleAnswer after the await succeeded: the socket emit and the local append
HandleAnswerSuccess ==
  /\ Alive
  /\ submit.stage = "ok"
  /\ IF room.currentQuestion = NoQuestion
     THEN /\ crashed' = TRUE
          /\ UNCHANGED <<room, cbResults>>
     ELSE /\ room' = AppendOwnAnswer(room, submit.answer)
          /\ cbResults' = roundResults.set
          /\ UNCHANGED crashed
  /\ submit' = NoSubmit
  /\ last' = Note("other")
  /\ UNCHANGED <<server, roundResults, hasAnswered, canAnswer, isTransitioning,
                 isLoading, error, fetchInProgress, fetches, timers, failures,
                 overlaps, tierVars, auxVars>>

\* a catch block that leaves the optimistic hasAnswered in place
HandleAnswerFailureKeeping ==
  /\ Alive
  /\ submit.stage = "sent"
  /\ hasAnswered' = hasAnswered
  /\ submit' = NoSubmit
  /\ last' = Note("answer-failed")
  /\ UNCHANGED <<server, room, roundResults, canAnswer, isTransitioning,
                 isLoading, error, fetchInProgress, cbResults, fetches, timers,
                 crashed, failures, overlaps, tierVars, auxVars>>

\* handleAnswer's catch: the request failed (transport error, or the server
\* refused a second answer for the round)
HandleAnswerFailure ==
  /\ Alive
  /\ submit.stage = "sent"
  /\ hasAnswered' = FALSE
  /\ submit' = NoSubmit
  /\ last' = Note("answer-failed")
  /\ UNCHANGED <<server, room, roundResults, canAnswer, isTransitioning,
                 isLoading, error, fetchInProgress, cbResults, fetches, timers,
                 crashed, failures, overlaps, tierVars, auxVars>>

\* -------------------------------------------------------------------- Next
Next ==
  \/ ServerStartGame
  \/ \E u \in Users, a \in BOOLEAN : ServerRecordAnswer(u, a)
  \/ ServerNextRound
  \/ \E i \in 1..MaxFetches : ServerRespond(i)
  \/ \E i \in 1..MaxFetches : FetchRoomDetailsSuccess(i)
  \/ \E i \in 1..MaxFetches : FetchRoomDetailsFailure(i)
  \/ ScheduledPoll
  \/ \E e \in {"player-joined", "player-left", "host-changed"} : OnMembershipEvent(e)
  \/ OnGameStarted
  \/ \E r \in 1..MaxRounds : OnRoundStarted(r)
  \/ \E u \in Users, a \in BOOLEAN : OnPlayerAnswered(u, a)
  \/ \E r \in 1..MaxRounds : OnAllPlayersAnswered(r)
  \/ \E i \in 1..MaxTimers : TimerFires(i)
  \/ \E a \in BOOLEAN : HandleAnswer(a)
  \/ ServerRecordSubmit
  \/ HandleAnswerSuccess
  \/ HandleAnswerFailure

Spec == Init /\ [][Next]_vars

\* ---------------------------------------------------------- the bonus tiers
\* Timer.js: bonusText, from the elapsed time sampled last and canAnswer.
\* "locked" is 'Reading period', "nobonus" is 'No time bonus'.
BonusText(elapsed, can) ==
  IF ~can THEN "locked"
  ELSE IF elapsed <= TimerBestBonusLimitMs THEN "bonus3"
  ELSE IF elapsed <= TimerBonusLimitMs THEN "bonus1"
  ELSE "nobonus"

\* a feedback whose best tier ends before 5.0 s
AnswerFeedbackExclusive(timeToAnswer) ==
  IF timeToAnswer < QuickLimitMs THEN "locked"
  ELSE IF timeToAnswer < BestBonusLimitMs THEN "bonus3"
  ELSE IF timeToAnswer <= BonusLimitMs THEN "bonus1"
  ELSE "nobonus"

\* handleAnswer: the toast chosen from timeToAnswer.  "locked" is 'answered
\* too quickly', "nobonus" is 'answered too slowly'.
AnswerFeedback(timeToAnswer) ==
  IF timeToAnswer < QuickLimitMs THEN "locked"
  ELSE IF timeToAnswer <= BestBonusLimitMs THEN "bonus3"
  ELSE IF timeToAnswer <= BonusLimitMs THEN "bonus1"
  ELSE "nobonus"

\* A question is on screen, elapsedMs after questionStartTime, with the answer
\* buttons locked or not.
InitTier ==
  /\ server = [status |-> "playing", round |-> 1, answers |-> {}]
  /\ room = ResponseData(server)
  /\ roundResults = NoResults
  /\ hasAnswered = FALSE
  /\ canAnswer \in BOOLEAN
  /\ isTransitioning = FALSE
  /\ isLoading = FALSE
  /\ error = FALSE
  /\ fetchInProgress = FALSE
  /\ cbResults = FALSE
  /\ fetches = <<>>
  /\ submit = NoSubmit
  /\ timers = <<>>
  /\ crashed = FALSE
  /\ failures = 0
  /\ overlaps = 0
  /\ last = Note("other")
  /\ elapsedMs \in 0..MaxElapsedMs
  /\ elapsedTime = 0
  /\ feedback = "none"
  /\ AuxInit

\* Timer.js: the 100 ms interval samples the elapsed time
TimerTick ==
  /\ room.currentQuestion # NoQuestion
  /\ ~roundResults.set
  /\ ~hasAnswered
  /\ elapsedTime' = elapsedMs
  /\ UNCHANGED <<server, room, roundResults, hasAnswered, canAnswer,
                 isTransitioning, isLoading, error, fetchInProgress, cbResults,
                 fetches, submit, timers, crashed, failures, overlaps, last,
                 elapsedMs, feedback, auxVars>>

\* handleAnswer, from the click to the feedback toast of a successful submission
ShowFeedback ==
  /\ AnswerEnabled
  /\ feedback = "none"
  /\ feedback' = AnswerFeedback(elapsedMs)
  /\ UNCHANGED <<server, room, roundResults, hasAnswered, canAnswer,
                 isTransitioning, isLoading, error, fetchInProgress, cbResults,
                 fetches, submit, timers, crashed, failures, overlaps, last,
                 elapsedMs, elapsedTime, auxVars>>

NextTier == TimerTick \/ ShowFeedback

SpecTier == InitTier /\ [][NextTier]_vars

\* ------------------------------------------------- the rounds, with a clock
\* The reading period of a question, with the wall clock: a handler runs at
\* the time `now`, setTimeout(f, d) runs f when the clock reaches now + d,
\* and a response arrives any time after its request.  The component has
\* loaded its snapshot of a waiting room.
MaxNow == 8

NavigateDelayMs == 1000

ReadingDelay == ReadingDelayMs \div 1000

NavigateDelay == NavigateDelayMs \div 1000

TimerAt(kind, cl, at) == [kind |-> kind, cl |-> cl, res |-> NoResults, at |-> at]

\* a host check that lets every caller through
EveryoneIsHost == TRUE

\* isUserHost()
IsUserHost == isHost

\* The facts of a round every player has answered.
AnsweredRound(r) == {Fact(u, QuestionOf(r), r, Truth(u, QuestionOf(r))) : u \in Users}

\* The snapshot of a waiting room has been loaded.
InLobby ==
  /\ server = [status |-> "waiting", round |-> 1, answers |-> {}]
  /\ roundResults = NoResults
  /\ hasAnswered = FALSE
  /\ canAnswer = FALSE
  /\ cbResults = FALSE
  /\ now = 0
  /\ questionStartTime = NoTime

\* Round 1 is over: every player has answered its question after the
\* reading period, a poll has brought the facts and computed the results.
InResults ==
  /\ server = [status |-> "playing", round |-> 1, answers |-> AnsweredRound(1)]
  /\ roundResults = Summary(SetToBag(server.answers), QuestionOf(1), 1)
  /\ hasAnswered = TRUE
  /\ canAnswer = TRUE
  /\ cbResults = TRUE
  /\ now = ReadingDelay
  /\ questionStartTime = 0

InitRounds ==
  /\ InLobby \/ InResults
  /\ room = ResponseData(server)
  /\ isTransitioning = FALSE
  /\ isLoading = FALSE
  /\ error = FALSE
  /\ fetchInProgress = FALSE
  /\ fetches = <<>>
  /\ submit = NoSubmit
  /\ timers = <<>>
  /\ crashed = FALSE
  /\ failures = 0
  /\ overlaps = 0
  /\ last = Note("other")
  /\ elapsedMs = 0
  /\ elapsedTime = 0
  /\ feedback = "none"
  /\ isHost \in BOOLEAN
  /\ hostReq = NoHostRequest
  /\ emitted = 0
  /\ PollIdle
  /\ JoinIdle
  /\ players = Users

\* Something depends on the clock: a pending callback, or a question still
\* in its reading period.  The clock stands still otherwise, so `now` counts
\* the seconds during which it matters.
ClockNeeded ==
  \/ Len(timers) > 0
  \/ questionStartTime # NoTime /\ now - questionStartTime < ReadingDelay

\* A second passes; a callback that is due runs first.
ClockTick ==
  /\ Alive
  /\ now < MaxNow
  /\ ClockNeeded
  /\ \A i \in 1..Len(timers) : timers[i].at > now
  /\ now' = now + 1
  /\ last' = Note("other")
  /\ UNCHANGED <<server, room, roundResults, hasAnswered, canAnswer,
                 isTransitioning, isLoading, error, fetchInProgress, cbResults,
                 fetches, submit, timers, crashed, failures, overlaps, restVars,
                 questionStartTime, isHost, hostReq, emitted>>

\* The body shared by 'game-started' and 'round-started', at the time now.
StartTransitionAt(status, r) ==
  /\ Len(timers) < MaxTimers
  /\ isTransitioning' = TRUE
  /\ hasAnswered' = FALSE
  /\ roundResults' = NoResults
  /\ canAnswer' = FALSE
  /\ questionStartTime' = now
  /\ room' = [room EXCEPT !.status = status, !.currentRound = r,
                          !.currentQuestion = QuestionOf(r)]
  /\ timers' = Append(timers, TimerAt("transition", CurrentClosure,
                                      now + ReadingDelay))
  /\ cbResults' = FALSE
  /\ last' = Note("other")
  /\ StartAsync
  /\ UNCHANGED <<server, isLoading, error, fetchInProgress, fetches, submit,
                 crashed, failures, restVars, now, isHost, hostReq, emitted>>

\* socketHandlers['game-started'], delivered once the game has started
GameStartedAt ==
  /\ Alive
  /\ server.status # "waiting"
  /\ StartTransitionAt("playing", 1)

\* socketHandlers['round-started'], delivered once round r has started
RoundStartedAt(r) ==
  /\ Alive
  /\ r \in 2..server.round
  /\ StartTransitionAt(room.status, r)

\* The continuation of fetchRoomDetails after a response arrived, at the
\* time now.
FetchRoomDetailsAt(i) ==
  /\ Alive
  /\ i \in 1..Len(fetches)
  /\ fetches[i].resp # Pending
  /\ LET data == ResponseData(fetches[i].resp)
         playing == data.status = "playing"
         rearm == fetches[i].rearm
         compute == fetches[i].compute
     IN /\ rearm => Len(timers) < MaxTimers
        /\ room' = MergeResponse(room, data)
        /\ hasAnswered' = IF playing THEN UserAnsweredCurrentQuestion(data)
                          ELSE hasAnswered
        /\ questionStartTime' = IF rearm THEN now ELSE questionStartTime
        /\ canAnswer' = IF rearm THEN FALSE ELSE canAnswer
        /\ timers' = IF rearm
                     THEN Append(timers, TimerAt("canAnswer", NoClosure,
                                                 now + ReadingDelay))
                     ELSE timers
        /\ roundResults' =
             IF compute
             THEN Summary(data.answers, data.currentQuestion, data.currentRound)
             ELSE IF rearm THEN NoResults ELSE roundResults
  /\ fetches' = RemoveAt(fetches, i)
  /\ isLoading' = FALSE
  /\ fetchInProgress' = FALSE
  /\ last' = Note("other")
  /\ UNCHANGED <<server, isTransitioning, error, submit, crashed, failures,
                 overlaps, restVars, now, isHost, hostReq, emitted>>
  /\ CbRefresh(TRUE)

\* A setTimeout callback runs when it is due, the one created first first.
TimeoutAt(i) ==
  /\ Alive
  /\ i \in 1..Len(timers)
  /\ timers[i].at <= now
  /\ \A j \in 1..(i - 1) : timers[j].at > timers[i].at
  /\ timers' = RemoveAt(timers, i)
  /\ last' = Note("other")
  /\ UNCHANGED <<server, room, roundResults, hasAnswered, error, submit,
                 failures, overlaps, restVars, now, questionStartTime, isHost,
                 hostReq, emitted>>
  /\ LET t == timers[i]
     IN \/ /\ t.kind = "canAnswer"       \* fetchRoomDetails, 3 s after a change
           /\ canAnswer' = TRUE
           /\ UNCHANGED <<isTransitioning, isLoading, fetchInProgress, fetches,
                          cbResults, crashed>>
        \/ /\ t.kind = "transition"      \* 'game-started' / 'round-started'
           /\ canAnswer' = TRUE
           /\ isTransitioning' = FALSE
           /\ IssueFetch(t.cl)
           /\ UNCHANGED crashed
           /\ CbRefresh(FALSE)
        \/ /\ t.kind = "host"            \* handleStartGame / handleNextRound
           /\ canAnswer' = TRUE
           /\ isTransitioning' = FALSE
           /\ UNCHANGED <<isLoading, fetchInProgress, fetches, crashed>>
           /\ CbRefresh(FALSE)
        \/ /\ t.kind = "navigate"        \* navigate('/leaderboard') unmounts
           /\ crashed' = TRUE
           /\ UNCHANGED <<canAnswer, isTransitioning, isLoading,
                          fetchInProgress, fetches, cbResults>>

\* handleStartGame up to the await of POST /rooms/:id/start.  The button is
\* that of a waiting room, rendered while the user was its host; the handler
\* checks the host again.
HandleStartGame ==
  /\ Alive
  /\ room.status = "waiting"
  /\ IF ~IsUserHost
     THEN UNCHANGED <<isTransitioning, hostReq, cbResults, overlaps>>
     ELSE /\ hostReq.kind = "none"
          /\ StartAsync
          /\ isTransitioning' = TRUE
          /\ hostReq' = [NoHostRequest EXCEPT !.kind = "start", !.stage = "sent"]
          /\ cbResults' = roundResults.set
  /\ last' = Note("handleStartGame")
  /\ UNCHANGED <<server, room, roundResults, hasAnswered, canAnswer, isLoading,
                 error, fetchInProgress, fetches, submit, timers, crashed,
                 failures, restVars, now, questionStartTime, isHost, emitted>>

\* The 'Next Round' buttons: under the results, and under 'All players have
\* answered!' while the results are not set.
NextRoundOffered ==
  /\ room.status = "playing"
  /\ \/ roundResults.set /\ ~isTransitioning
     \/ /\ ~roundResults.set
        /\ AllAnswered(room.answers, room.currentQuestion, room.currentRound)

\* handleNextRound up to the await of POST /rooms/:id/next-round
HandleNextRound ==
  /\ Alive
  /\ NextRoundOffered
  /\ IF ~IsUserHost
     THEN UNCHANGED <<room, roundResults, hasAnswered, isTransitioning,
                      hostReq, cbResults, overlaps>>
     ELSE /\ hostReq.kind = "none"
          /\ StartAsync
          /\ isTransitioning' = TRUE
          /\ roundResults' = NoResults
          /\ hasAnswered' = FALSE
          /\ room' = [room EXCEPT !.currentRound =
                        IF @ >= MaxRounds THEN MaxRounds ELSE @ + 1]
          /\ hostReq' = [NoHostRequest EXCEPT
                           !.kind = "next", !.stage = "sent",
                           !.round = room.currentRound, !.rr = roundResults,
                           !.has = hasAnswered]
          /\ cbResults' = FALSE
  /\ last' = Note("handleNextRound")
  /\ UNCHANGED <<server, canAnswer, isLoading, error, fetchInProgress, fetches,
                 submit, timers, crashed, failures, restVars, now,
                 questionStartTime, isHost, emitted>>

\* The server carries out the host's request: the game starts, or the round
\* advances, or the game completes after the last round.
ServerHostRequest ==
  /\ Alive
  /\ hostReq.stage = "sent"
  /\ \/ /\ hostReq.kind = "start"
        /\ server.status = "waiting"
        /\ server' = [server EXCEPT !.status = "playing", !.round = 1]
     \/ /\ hostReq.kind = "next"
        /\ server.status = "playing"
        /\ server' = IF server.round < MaxRounds
                     THEN [server EXCEPT !.round = @ + 1]
                     ELSE [server EXCEPT !.status = "completed"]
  /\ hostReq' = [hostReq EXCEPT !.stage = "ok", !.resp = server']
  /\ last' = Note("other")
  /\ UNCHANGED <<room, roundResults, hasAnswered, canAnswer, isTransitioning,
                 isLoading, error, fetchInProgress, cbResults, fetches, submit,
                 timers, crashed, failures, overlaps, restVars, now,
                 questionStartTime, isHost, emitted>>

\* prev.answers.filter(a => a.round !== r)
AnswersNotOfRound(answers, r) ==
  [f \in {g \in BagToSet(answers) : g.round # r} |-> answers[f]]

\* handleStartGame after the await succeeded
HandleStartGameSuccess ==
  /\ Alive
  /\ hostReq.kind = "start"
  /\ hostReq.stage = "ok"
  /\ Len(timers) < MaxTimers
  /\ emitted' = emitted + 1
  /\ room' = [room EXCEPT !.status = "playing", !.currentRound = 1,
                          !.currentQuestion = QuestionOf(1)]
  /\ hasAnswered' = FALSE
  /\ roundResults' = NoResults
  /\ questionStartTime' = now
  /\ timers' = Append(timers, TimerAt("host", NoClosure, now + ReadingDelay))
  /\ hostReq' = NoHostRequest
  /\ cbResults' = FALSE
  /\ last' = Note("other")
  /\ UNCHANGED <<server, canAnswer, isTransitioning, isLoading, error,
                 fetchInProgress, fetches, submit, crashed, failures, overlaps,
                 restVars, now, isHost>>

\* handleNextRound after the await succeeded
HandleNextRoundSuccess ==
  /\ Alive
  /\ hostReq.kind = "next"
  /\ hostReq.stage = "ok"
  /\ Len(timers) < MaxTimers
  /\ emitted' = emitted + 1
  /\ IF hostReq.resp.status = "completed"
     THEN /\ timers' = Append(timers, TimerAt("navigate", NoClosure,
                                              now + NavigateDelay))
          /\ UNCHANGED <<room, questionStartTime, cbResults>>
     ELSE /\ room' = [room EXCEPT
                        !.currentRound = hostReq.resp.round,
                        !.currentQuestion = QuestionOf(hostReq.resp.round),
                        !.status = hostReq.resp.status,
                        !.answers = AnswersNotOfRound(@, hostReq.resp.round)]
          /\ questionStartTime' = now
          /\ timers' = Append(timers, TimerAt("host", NoClosure,
                                              now + ReadingDelay))
          /\ cbResults' = roundResults.set
  /\ hostReq' = NoHostRequest
  /\ last' = Note("other")
  /\ UNCHANGED <<server, roundResults, hasAnswered, canAnswer, isTransitioning,
                 isLoading, error, fetchInProgress, fetches, submit, crashed,
                 failures, overlaps, restVars, now, isHost>>

\* The catch block of handleStartGame and of handleNextRound.
HostRequestFailure ==
  /\ Alive
  /\ hostReq.stage = "sent"
  /\ failures < MaxFailures
  /\ failures' = failures + 1
  /\ isTransitioning' = FALSE
  /\ hostReq' = NoHostRequest
  /\ last' = Note("host-request-failed")
  /\ UNCHANGED <<server, room, roundResults, hasAnswered, canAnswer, isLoading,
                 error, fetchInProgress, fetches, submit, timers, crashed,
                 overlaps, restVars, now, questionStartTime, isHost, emitted>>
  /\ CbRefresh(FALSE)

NextRounds ==
  \/ ClockTick
  \/ ~isHost /\ ServerStartGame
  \/ ~isHost /\ ServerNextRound
  \/ \E i \in 1..MaxFetches : ServerRespond(i)
  \/ ScheduledPoll
  \/ \E i \in 1..MaxFetches : FetchRoomDetailsAt(i)
  \/ GameStartedAt
  \/ \E r \in 1..MaxRounds : RoundStartedAt(r)
  \/ \E i \in 1..MaxTimers : TimeoutAt(i)
  \/ HandleStartGame
  \/ HandleNextRound
  \/ ServerHostRequest
  \/ HandleStartGameSuccess
  \/ HandleNextRoundSuccess
  \/ HostRequestFailure

SpecRounds == InitRounds /\ [][NextRounds]_vars

\* ------------------------------------------------------ the polling schedule
\* The polling effect: a 5 s interval that calls fetchRoomDetails() once the
\* time since the last completed fetch exceeds a backed-off, randomised
\* interval.  sinceUpdate stops growing at MaxSinceMs, above the longest
\* interval the effect can compute.
MaxSinceMs == 75000

IntervalMs == 5000
PlayingBaseMs == 15000
WaitingBaseMs == 30000
MaxIntervalMs == 60000
IdleLimitMs == 30000
DebounceMs == 3000
MinFactor == 80
MaxFactor == 120

\* 0.8 + Math.random() * 0.4, in percent
Factors == {MinFactor, 100, MaxFactor}

\* a base interval that ignores the status
BaseIntervalFlat(status) == PlayingBaseMs

\* room?.status === 'playing' ? 15000 : 30000
BaseInterval(status) == IF status = "playing" THEN PlayingBaseMs ELSE WaitingBaseMs

Min(a, b) == IF a < b THEN a ELSE b

\* a backoff that is never capped
NextIntervalUncapped(status, since, f) ==
  LET base == BaseInterval(status)
      k == since \div base
  IN (((base * 3^k) \div 2^k) * f) \div 100

\* Math.min(baseInterval * 1.5 ^ floor(since / baseInterval), maxInterval)
\*   * (0.8 + Math.random() * 0.4)
NextInterval(status, since, f) ==
  LET base == BaseInterval(status)
      k == since \div base
  IN (Min((base * 3^k) \div 2^k, MaxIntervalMs) * f) \div 100

\* The snapshot of a waiting room has been loaded.
InitPoll ==
  /\ server = [status |-> "waiting", round |-> 1, answers |-> {}]
  /\ room = ResponseData(server)
  /\ roundResults = NoResults
  /\ hasAnswered = FALSE
  /\ canAnswer = FALSE
  /\ isTransitioning = FALSE
  /\ isLoading = FALSE
  /\ error = FALSE
  /\ fetchInProgress = FALSE
  /\ cbResults = FALSE
  /\ fetches = <<>>
  /\ submit = NoSubmit
  /\ timers = <<>>
  /\ crashed = FALSE
  /\ failures = 0
  /\ overlaps = 0
  /\ last = Note("other")
  /\ elapsedMs = 0
  /\ elapsedTime = 0
  /\ feedback = "none"
  /\ RoundsIdle
  /\ PollIdle
  /\ JoinIdle
  /\ players = Users

\* the cells that the polling schedule leaves alone
pollRest == <<tierVars, roundVars, joinVars, players>>

\* Five seconds pass.
PollClock ==
  /\ Alive
  /\ sinceUpdate < MaxSinceMs
  /\ sinceUpdate' = Min(sinceUpdate + IntervalMs, MaxSinceMs)
  /\ last' = Note("other")
  /\ UNCHANGED <<server, room, roundResults, hasAnswered, canAnswer,
                 isTransitioning, isLoading, error, fetchInProgress, cbResults,
                 fetches, submit, timers, crashed, failures, overlaps,
                 fetchTimeout, pollRest>>

\* fetchRoomDetails() up to the await, on the instance that captured cl: the
\* timeout is cleared and the request goes out.
IssueScheduled(cl) ==
  /\ IssueFetch(cl)
  /\ fetchTimeout' = NoTimeout
  /\ last' = Note("scheduled-poll")
  /\ UNCHANGED <<server, room, roundResults, hasAnswered, canAnswer,
                 isTransitioning, error, submit, timers, crashed, failures,
                 overlaps, sinceUpdate, pollRest>>
  /\ CbRefresh(FALSE)

\* The interval callback, with the random factor f: a poll is due.
PollingInterval(f) ==
  /\ Alive
  /\ ~fetchInProgress
  /\ ~isTransitioning
  /\ sinceUpdate > NextInterval(room.status, sinceUpdate, f)
  /\ sinceUpdate >= DebounceMs
  /\ IssueScheduled(CurrentClosure)

\* The body of the polling effect after a render: scheduleNextFetch().
ScheduleNextFetch ==
  /\ Alive
  /\ room.status # "null"
  /\ ~fetchInProgress
  /\ ~isTransitioning
  /\ sinceUpdate > IdleLimitMs
  /\ ~fetchTimeout.set
  /\ fetchTimeout' = [set |-> TRUE, cl |-> CurrentClosure]
  /\ last' = Note("other")
  /\ UNCHANGED <<server, room, roundResults, hasAnswered, canAnswer,
                 isTransitioning, isLoading, error, fetchInProgress, cbResults,
                 fetches, submit, timers, crashed, failures, overlaps,
                 sinceUpdate, pollRest>>

\* The timeout of scheduleNextFetch runs with the values of the render that
\* scheduled it: isTransitioning was false and lastUpdated was more than 30 s
\* old then, so only fetchInProgressRef.current, read when it runs, can stop
\* the call of fetchRoomDetails().
FetchTimeoutFires ==
  /\ Alive
  /\ fetchTimeout.set
  /\ \/ /\ ~fetchInProgress
        /\ IssueScheduled(fetchTimeout.cl)
     \/ /\ fetchInProgress
        /\ fetchTimeout' = NoTimeout
        /\ last' = Note("other")
        /\ UNCHANGED <<server, room, roundResults, hasAnswered, canAnswer,
                       isTransitioning, isLoading, error, fetchInProgress,
                       cbResults, fetches, submit, timers, crashed, failures,
                       overlaps, sinceUpdate, pollRest>>

\* The continuation and the finally block of fetchRoomDetails after a
\* response arrived: lastPollingUpdate is now.
FetchRoomDetailsDone(i) ==
  /\ Alive
  /\ i \in 1..Len(fetches)
  /\ fetches[i].resp # Pending
  /\ LET data == ResponseData(fetches[i].resp)
         playing == data.status = "playing"
         rearm == fetches[i].rearm
         compute == fetches[i].compute
     IN /\ rearm => Len(timers) < MaxTimers
        /\ room' = MergeResponse(room, data)
        /\ hasAnswered' = IF playing THEN UserAnsweredCurrentQuestion(data)
                          ELSE hasAnswered
        /\ canAnswer' = IF rearm THEN FALSE ELSE canAnswer
        /\ timers' = IF rearm
                     THEN Append(timers, Timer("canAnswer", NoClosure, NoResults))
                     ELSE timers
        /\ roundResults' =
             IF compute
             THEN Summary(data.answers, data.currentQuestion, data.currentRound)
             ELSE IF rearm THEN NoResults ELSE roundResults
  /\ fetches' = RemoveAt(fetches, i)
  /\ isLoading' = FALSE
  /\ fetchInProgress' = FALSE
  /\ sinceUpdate' = 0
  /\ last' = Note("poll-done")
  /\ UNCHANGED <<server, isTransitioning, error, submit, crashed, failures,
                 overlaps, fetchTimeout, pollRest>>
  /\ CbRefresh(TRUE)

\* The catch and finally blocks of fetchRoomDetails after a transport error:
\* lastPollingUpdate is now as well.
FetchRoomDetailsFailed(i) ==
  /\ Alive
  /\ i \in 1..Len(fetches)
  /\ fetches[i].resp = Pending
  /\ failures < MaxFailures
  /\ failures' = failures + 1
  /\ error' = (error \/ ~fetches[i].cl.has)
  /\ fetches' = RemoveAt(fetches, i)
  /\ isLoading' = FALSE
  /\ fetchInProgress' = FALSE
  /\ sinceUpdate' = 0
  /\ last' = Note("poll-failed")
  /\ UNCHANGED <<server, room, roundResults, hasAnswered, canAnswer,
                 isTransitioning, submit, timers, crashed, overlaps,
                 fetchTimeout, pollRest>>
  /\ CbRefresh(FALSE)

\* A setTimeout callback of the room synchronisation runs; the forced fetch
\* at the end of a transition clears the timeout of scheduleNextFetch.
TimeoutFires(i) ==
  /\ Alive
  /\ i \in 1..Len(timers)
  /\ CanFire(i)
  /\ timers' = RemoveAt(timers, i)
  /\ last' = Note("other")
  /\ UNCHANGED <<server, room, roundResults, hasAnswered, error, submit,
                 crashed, failures, sinceUpdate, pollRest>>
  /\ LET t == timers[i]
     IN \/ /\ t.kind = "canAnswer"
           /\ canAnswer' = TRUE
           /\ UNCHANGED <<isTransitioning, isLoading, fetchInProgress, fetches,
                          cbResults, overlaps, fetchTimeout>>
        \/ /\ t.kind = "transition"
           /\ canAnswer' = TRUE
           /\ isTransitioning' = FALSE
           /\ IssueFetch(t.cl)
           /\ fetchTimeout' = NoTimeout
           /\ NoAsync
           /\ CbRefresh(FALSE)

NextPoll ==
  \/ PollClock
  \/ \E f \in Factors : PollingInterval(f)
  \/ ScheduleNextFetch
  \/ FetchTimeoutFires
  \/ \E i \in 1..MaxFetches : ServerRespond(i)
  \/ \E i \in 1..MaxFetches : FetchRoomDetailsDone(i)
  \/ \E i \in 1..MaxFetches : FetchRoomDetailsFailed(i)
  \/ ServerStartGame
  \/ room.status = "waiting" /\ OnGameStarted
  \/ \E i \in 1..MaxTimers : TimeoutFires(i)

\* The clock advances, setInterval and setTimeout callbacks run, the server
\* answers and the continuation of a response runs.  The interval is only
\* certain to poll when the time exceeds the interval of the largest factor.
SpecPoll ==
  /\ InitPoll
  /\ [][NextPoll]_vars
  /\ WF_vars(PollClock)
  /\ WF_vars(PollingInterval(MaxFactor))
  /\ WF_vars(\E i \in 1..MaxFetches : ServerRespond(i))
  /\ WF_vars(\E i \in 1..MaxFetches : FetchRoomDetailsDone(i))
  /\ WF_vars(\E i \in 1..MaxTimers : TimeoutFires(i))

\* --------------------------------------------------------- the join controls
\* The three controls that join a room: the card of the room list
\* (RoomCard.handleJoinRoom), the 'Join Room' button of the room header and
\* the 'Enter Room' button of the passcode form (GameRoom.handleJoinRoom).
\* joinCalls holds the passcode each POST /rooms/:id/join carried.
MaxJoinCalls == 3

RoomPasscode == "a"

Passcodes == {"", RoomPasscode, "b"}

\* the payload of the room card's POST has no passcode
NoPasscode == "-"

\* the cells that the join controls leave alone
joinRest == <<tierVars, roundVars, pollVars, players>>

\* The room list shows a waiting room with a free seat that the user has not
\* joined; GameRoom is not mounted.
InitJoin ==
  /\ server = [status |-> "waiting", round |-> 1, answers |-> {}, joined |-> FALSE]
  /\ room = NullRoom
  /\ roundResults = NoResults
  /\ hasAnswered = FALSE
  /\ canAnswer = FALSE
  /\ isTransitioning = FALSE
  /\ isLoading = TRUE
  /\ error = FALSE
  /\ fetchInProgress = FALSE
  /\ cbResults = FALSE
  /\ fetches = <<>>
  /\ submit = NoSubmit
  /\ timers = <<>>
  /\ crashed = FALSE
  /\ failures = 0
  /\ overlaps = 0
  /\ last = Note("other")
  /\ elapsedMs = 0
  /\ elapsedTime = 0
  /\ feedback = "none"
  /\ RoundsIdle
  /\ PollIdle
  /\ players = Users
  /\ view = "list"
  /\ roomType \in {"public", "private"}
  /\ inRoom = FALSE
  /\ passcode = ""
  /\ isJoining = FALSE
  /\ joinCalls = <<>>

\* The server accepts a join of a public room, and of a private room with
\* its passcode.
JoinAccepted(p) == roomType = "public" \/ p = RoomPasscode

\* GameRoom mounts: fresh state cells and fetchRoomDetails(true).
MountGameRoom ==
  /\ view' = "room"
  /\ passcode' = ""
  /\ isJoining' = FALSE
  /\ inRoom' = FALSE
  /\ room' = NullRoom
  /\ IssueFetch(NoClosure)

\* RoomCard.handleJoinRoom: a private room leads to the join page, a public
\* room is joined with a POST that carries no passcode.
RoomCardJoin ==
  /\ view = "list"
  /\ ~server.joined
  /\ IF roomType = "private"
     THEN /\ view' = "join-page"
          /\ UNCHANGED joinCalls
     ELSE /\ Len(joinCalls) < MaxJoinCalls
          /\ joinCalls' = Append(joinCalls, NoPasscode)
          /\ view' = "list-joining"
  /\ last' = Note("other")
  /\ UNCHANGED <<server, room, roundResults, hasAnswered, canAnswer,
                 isTransitioning, isLoading, error, fetchInProgress, cbResults,
                 fetches, submit, timers, crashed, failures, overlaps,
                 roomType, inRoom, passcode, isJoining, joinRest>>

\* The card's POST succeeded: navigate to the room.
RoomCardJoinSuccess ==
  /\ view = "list-joining"
  /\ JoinAccepted(NoPasscode)
  /\ Len(fetches) < MaxFetches
  /\ server' = [server EXCEPT !.joined = TRUE]
  /\ MountGameRoom
  /\ last' = Note("other")
  /\ UNCHANGED <<roundResults, hasAnswered, canAnswer, isTransitioning, error,
                 cbResults, submit, timers, crashed, failures, overlaps,
                 roomType, joinCalls, joinRest>>

\* The card's POST failed: a toast, the list stays.
RoomCardJoinFailure ==
  /\ view = "list-joining"
  /\ view' = "list"
  /\ last' = Note("other")
  /\ UNCHANGED <<server, room, roundResults, hasAnswered, canAnswer,
                 isTransitioning, isLoading, error, fetchInProgress, cbResults,
                 fetches, submit, timers, crashed, failures, overlaps,
                 roomType, inRoom, passcode, isJoining, joinCalls, joinRest>>

\* The user opens the page of the room without having joined it.
OpenRoom ==
  /\ view \in {"list", "join-page"}
  /\ Len(fetches) < MaxFetches
  /\ MountGameRoom
  /\ last' = Note("other")
  /\ UNCHANGED <<server, roundResults, hasAnswered, canAnswer, isTransitioning,
                 error, cbResults, submit, timers, crashed, failures, overlaps,
                 roomType, joinCalls, joinRest>>

\* The continuation of fetchRoomDetails in the waiting room: the snapshot and
\* its player list.
RoomFetched(i) ==
  /\ view = "room"
  /\ i \in 1..Len(fetches)
  /\ fetches[i].resp # Pending
  /\ room' = MergeResponse(room, ResponseData(fetches[i].resp))
  /\ inRoom' = fetches[i].resp.joined
  /\ fetches' = RemoveAt(fetches, i)
  /\ isLoading' = FALSE
  /\ fetchInProgress' = FALSE
  /\ last' = Note("other")
  /\ UNCHANGED <<server, roundResults, hasAnswered, canAnswer, isTransitioning,
                 error, cbResults, submit, timers, crashed, failures, overlaps,
                 view, roomType, passcode, isJoining, joinCalls, joinRest>>

\* onChange of the passcode input, rendered for a private room the user is
\* not in
SetPasscode(p) ==
  /\ view = "room"
  /\ room.status # "null"
  /\ roomType = "private"
  /\ ~inRoom
  /\ passcode' = p
  /\ last' = Note("other")
  /\ UNCHANGED <<server, room, roundResults, hasAnswered, canAnswer,
                 isTransitioning, isLoading, error, fetchInProgress, cbResults,
                 fetches, submit, timers, crashed, failures, overlaps,
                 view, roomType, inRoom, isJoining, joinCalls, joinRest>>

\* GameRoom.handleJoinRoom up to the await of the POST
HandleJoinRoom ==
  /\ Len(joinCalls) < MaxJoinCalls
  /\ isJoining' = TRUE
  /\ joinCalls' = Append(joinCalls,
                         IF roomType = "private" THEN passcode ELSE NoPasscode)
  /\ last' = Note("other")
  /\ UNCHANGED <<server, room, roundResults, hasAnswered, canAnswer,
                 isTransitioning, isLoading, error, fetchInProgress, cbResults,
                 fetches, submit, timers, crashed, failures, overlaps,
                 view, roomType, inRoom, passcode, joinRest>>

\* The 'Join Room' button of the room header.
HeaderJoin ==
  /\ view = "room"
  /\ room.status = "waiting"
  /\ ~inRoom
  /\ ~isJoining
  /\ HandleJoinRoom

\* The 'Enter Room' button of the passcode form.
PasscodeFormJoin ==
  /\ view = "room"
  /\ room.status # "null"
  /\ roomType = "private"
  /\ ~inRoom
  /\ ~isJoining
  /\ passcode # ""
  /\ HandleJoinRoom

\* handleJoinRoom after the await succeeded: the socket join, the forced
\* fetch, and the finally block
HandleJoinRoomSuccess ==
  /\ view = "room"
  /\ isJoining
  /\ JoinAccepted(joinCalls[Len(joinCalls)])
  /\ Len(fetches) < MaxFetches
  /\ server' = [server EXCEPT !.joined = TRUE]
  /\ IssueFetch(CurrentClosure)
  /\ isJoining' = FALSE
  /\ last' = Note("other")
  /\ UNCHANGED <<room, roundResults, hasAnswered, canAnswer, isTransitioning,
                 error, cbResults, submit, timers, crashed, failures, overlaps,
                 view, roomType, inRoom, passcode, joinCalls, joinRest>>

\* handleJoinRoom's catch and finally: the request failed or was refused
HandleJoinRoomFailure ==
  /\ view = "room"
  /\ isJoining
  /\ isJoining' = FALSE
  /\ last' = Note("other")
  /\ UNCHANGED <<server, room, roundResults, hasAnswered, canAnswer,
                 isTransitioning, isLoading, error, fetchInProgress, cbResults,
                 fetches, submit, timers, crashed, failures, overlaps,
                 view, roomType, inRoom, passcode, joinCalls, joinRest>>

NextJoin ==
  \/ RoomCardJoin
  \/ RoomCardJoinSuccess
  \/ RoomCardJoinFailure
  \/ OpenRoom
  \/ \E i \in 1..MaxFetches : ServerRespond(i)
  \/ \E i \in 1..MaxFetches : RoomFetched(i)
  \/ \E p \in Passcodes : SetPasscode(p)
  \/ HeaderJoin
  \/ PasscodeFormJoin
  \/ HandleJoinRoomSuccess
  \/ HandleJoinRoomFailure

SpecJoin == InitJoin /\ [][NextJoin]_vars

\* ------------------------------------------------------- the round results
\* The local computation of roundResults against room.players: the
\* continuation of fetchRoomDetails and the updater of 'player-answered'
\* compare the number of facts of the current (question, round) with the
\* number of players.  Players answer yes or no, leave the room, and the
\* server keeps or drops the facts of a player who left.
Players == {"u1", "u2", "u3"}

\* the cells that the round results leave alone
ledgerRest == <<tierVars, roundVars, pollVars, joinVars>>

\* the number of copies of its own fact the snapshot may hold
MaxOwnCopies == 2

\* filter(a => a.question === q && a.round === r && a.answer === false).length
NoCountFor(answers, q, r) ==
  BagCardinality([f \in {g \in BagToSet(answers) :
                          g.question = q /\ g.round = r /\ g.answer = FALSE}
                    |-> answers[f]])

\* answerCount === players.length && players.length > 0
AllPlayersAnswered(answers, q, r, ps) ==
  /\ CountFor(answers, q, r) = Cardinality(ps)
  /\ Cardinality(ps) > 0

\* Three players play the first round; the snapshot is loaded and the reading
\* period is over.
InitLedger ==
  /\ server = [status |-> "playing", round |-> 1, answers |-> {},
               players |-> Players]
  /\ room = ResponseData(server)
  /\ players = Players
  /\ roundResults = NoResults
  /\ hasAnswered = FALSE
  /\ canAnswer = TRUE
  /\ isTransitioning = FALSE
  /\ isLoading = FALSE
  /\ error = FALSE
  /\ fetchInProgress = FALSE
  /\ cbResults = FALSE
  /\ fetches = <<>>
  /\ submit = NoSubmit
  /\ timers = <<>>
  /\ crashed = FALSE
  /\ failures = 0
  /\ overlaps = 0
  /\ last = Note("other")
  /\ elapsedMs = 0
  /\ elapsedTime = 0
  /\ feedback = "none"
  /\ RoundsIdle
  /\ PollIdle
  /\ JoinIdle

\* What a player answers: the second player says no to the first question,
\* the third to the second, everyone else says yes.
Says(u, q) == ~((u = "u2" /\ q = QuestionOf(1)) \/ (u = "u3" /\ q = QuestionOf(2)))

\* A player's answer to the current question is recorded.
PlayerAnswers(u, a) ==
  /\ u \in server.players
  /\ a = Says(u, QuestionOf(server.round))
  /\ ~ServerAnswered(server, u, server.round)
  /\ server' = [server EXCEPT !.answers =
                  @ \cup {Fact(u, QuestionOf(server.round), server.round, a)}]
  /\ last' = Note("other")
  /\ UNCHANGED <<room, players, roundResults, hasAnswered, canAnswer,
                 isTransitioning, isLoading, error, fetchInProgress, cbResults,
                 fetches, submit, timers, crashed, failures, overlaps,
                 ledgerRest>>

\* Another player leaves the room; the server keeps the player's facts or
\* drops them.
PlayerLeaves(u, keep) ==
  /\ u \in server.players
  /\ u # Self
  /\ server' = [server EXCEPT
                  !.players = @ \ {u},
                  !.answers = IF keep THEN @ ELSE {f \in @ : f.user # u}]
  /\ last' = Note("other")
  /\ UNCHANGED <<room, players, roundResults, hasAnswered, canAnswer,
                 isTransitioning, isLoading, error, fetchInProgress, cbResults,
                 fetches, submit, timers, crashed, failures, overlaps,
                 ledgerRest>>

\* The host advances the round once every player of the room has answered.
RoundAdvances ==
  /\ server.round < MaxRounds
  /\ \A u \in server.players : ServerAnswered(server, u, server.round)
  /\ server' = [server EXCEPT !.round = @ + 1]
  /\ last' = Note("other")
  /\ UNCHANGED <<room, players, roundResults, hasAnswered, canAnswer,
                 isTransitioning, isLoading, error, fetchInProgress, cbResults,
                 fetches, submit, timers, crashed, failures, overlaps,
                 ledgerRest>>

\* fetchRoomDetails and its continuation on the server's room as of now:
\* the merge, hasAnswered, the reading period of a new question, and the
\* results when the facts of the question are as many as the players.
FetchRoomDetailsPlayers ==
  LET data == ResponseData(server)
      rearm == Rearm(CurrentClosure, data)
      compute == /\ ~cbResults
                 /\ AllPlayersAnswered(data.answers, data.currentQuestion,
                                       data.currentRound, server.players)
  IN /\ rearm => Len(timers) < MaxTimers
     /\ room' = MergeResponse(room, data)
     /\ players' = server.players
     /\ hasAnswered' = UserAnsweredCurrentQuestion(data)
     /\ canAnswer' = IF rearm THEN FALSE ELSE canAnswer
     /\ timers' = IF rearm
                  THEN Append(timers, Timer("canAnswer", NoClosure, NoResults))
                  ELSE timers
     /\ roundResults' =
          IF compute
          THEN Summary(data.answers, data.currentQuestion, data.currentRound)
          ELSE IF rearm THEN NoResults ELSE roundResults
     /\ cbResults' = roundResults'.set
     /\ last' = Note(IF compute THEN "results-computed" ELSE "poll-done")
     /\ UNCHANGED <<server, isTransitioning, isLoading, error, fetchInProgress,
                    fetches, submit, crashed, failures, overlaps, ledgerRest>>

\* socketHandlers['player-answered'] for a fact the server holds or held
PlayerAnsweredPlayers(u, a) ==
  /\ \E f \in server.answers : f.user = u /\ f.answer = a
  /\ IF AnswerExists(room, u)
     THEN /\ last' = Note("other")
          /\ UNCHANGED <<room, timers, cbResults>>
     ELSE LET updated == UpdatedAnswers(room, u, a)
              q == room.currentQuestion
              r == room.currentRound
              all == AllPlayersAnswered(updated, q, r, players) /\ ~roundResults.set
          IN /\ all => Len(timers) < MaxTimers
             /\ room' = PlayerAnswered(room, u, a)
             /\ timers' = IF all
                          THEN Append(timers, Timer("results", NoClosure,
                                                    Summary(updated, q, r)))
                          ELSE timers
             /\ cbResults' = roundResults.set
             /\ last' = Note(IF all THEN "results-scheduled" ELSE "other")
  /\ UNCHANGED <<server, players, roundResults, hasAnswered, canAnswer,
                 isTransitioning, isLoading, error, fetchInProgress, fetches,
                 submit, crashed, failures, overlaps, ledgerRest>>

\* handleAnswer after its request succeeded: the user's fact is appended to
\* the snapshot
OwnAnswerAppended ==
  /\ \E f \in server.answers :
       /\ f.user = Self
       /\ f.round = room.currentRound
       /\ CopiesOfKey(room.answers, Self, room.currentQuestion,
                      room.currentRound) < MaxOwnCopies
       /\ room' = AppendOwnAnswer(room, f.answer)
  /\ hasAnswered' = TRUE
  /\ cbResults' = roundResults.set
  /\ last' = Note("other")
  /\ UNCHANGED <<server, players, roundResults, canAnswer, isTransitioning,
                 isLoading, error, fetchInProgress, fetches, submit, timers,
                 crashed, failures, overlaps, ledgerRest>>

\* A setTimeout callback runs: the end of a reading period, or the results
\* of 'player-answered'.
ResultsTimerFires(i) ==
  /\ i \in 1..Len(timers)
  /\ CanFire(i)
  /\ timers' = RemoveAt(timers, i)
  /\ IF timers[i].kind = "results"
     THEN /\ roundResults' = timers[i].res
          /\ UNCHANGED canAnswer
     ELSE /\ canAnswer' = TRUE
          /\ UNCHANGED roundResults
  /\ last' = Note("other")
  /\ UNCHANGED <<server, room, players, hasAnswered, isTransitioning,
                 isLoading, error, fetchInProgress, cbResults, fetches, submit,
                 crashed, failures, overlaps, ledgerRest>>

NextLedger ==
  \/ \E u \in Players, a \in BOOLEAN : PlayerAnswers(u, a)
  \/ \E u \in Players, keep \in BOOLEAN : PlayerLeaves(u, keep)
  \/ RoundAdvances
  \/ FetchRoomDetailsPlayers
  \/ \E u \in Players, a \in BOOLEAN : PlayerAnsweredPlayers(u, a)
  \/ OwnAnswerAppended
  \/ \E i \in 1..MaxTimers : ResultsTimerFires(i)

SpecLedger == InitLedger /\ [][NextLedger]_vars

\* ------------------------------------------------------------- the teardown
\* The room view is unmounted (the user leaves, or the route changes).  The
\* cleanups of the effects run: the timeout of scheduleNextFetch and the
\* polling interval are cleared, the socket handlers are removed, leaveRoom
\* is emitted.  The callbacks of the other setTimeout calls and the
\* continuations of outstanding requests still run; their state setters do
\* nothing on an unmounted component, their other calls happen.
Mounted == view = "room"

\* the cells that the teardown leaves alone
leaveRest == <<tierVars, players, roomType, inRoom, passcode, isJoining, joinCalls>>

\* The snapshot of a waiting room has been loaded; the user is its host or
\* another player.
InitLeave ==
  /\ server = [status |-> "waiting", round |-> 1, answers |-> {}]
  /\ room = ResponseData(server)
  /\ roundResults = NoResults
  /\ hasAnswered = FALSE
  /\ canAnswer = FALSE
  /\ isTransitioning = FALSE
  /\ isLoading = FALSE
  /\ error = FALSE
  /\ fetchInProgress = FALSE
  /\ cbResults = FALSE
  /\ fetches = <<>>
  /\ submit = NoSubmit
  /\ timers = <<>>
  /\ crashed = FALSE
  /\ failures = 0
  /\ overlaps = 0
  /\ last = Note("other")
  /\ elapsedMs = 0
  /\ elapsedTime = 0
  /\ feedback = "none"
  /\ now = 0
  /\ questionStartTime = NoTime
  /\ isHost \in BOOLEAN
  /\ hostReq = NoHostRequest
  /\ emitted = 0
  /\ PollIdle
  /\ JoinIdle
  /\ players = Users

\* The cleanups of the three effects.  The user leaves while no request of
\* theirs to start the game is outstanding.
Unmount ==
  /\ Alive
  /\ Mounted
  /\ hostReq.kind = "none"
  /\ view' = "left"
  /\ fetchTimeout' = NoTimeout
  /\ emitted' = emitted + 1
  /\ last' = Note("unmount")
  /\ UNCHANGED <<server, room, roundResults, hasAnswered, canAnswer,
                 isTransitioning, isLoading, error, fetchInProgress, cbResults,
                 fetches, submit, timers, crashed, failures, overlaps,
                 sinceUpdate, now, questionStartTime, isHost, hostReq, leaveRest>>

\* A setTimeout callback of the mounted component runs.
MountedTimeout(i) ==
  /\ Alive
  /\ Mounted
  /\ i \in 1..Len(timers)
  /\ CanFire(i)
  /\ timers' = RemoveAt(timers, i)
  /\ last' = Note("other")
  /\ UNCHANGED <<server, room, roundResults, hasAnswered, error, submit,
                 crashed, failures, sinceUpdate, pollRest>>
  /\ LET t == timers[i]
     IN \/ /\ t.kind = "canAnswer"       \* fetchRoomDetails, 3 s after a change
           /\ canAnswer' = TRUE
           /\ UNCHANGED <<isTransitioning, isLoading, fetchInProgress, fetches,
                          cbResults, overlaps, fetchTimeout>>
        \/ /\ t.kind = "transition"      \* 'game-started'
           /\ canAnswer' = TRUE
           /\ isTransitioning' = FALSE
           /\ IssueFetch(t.cl)
           /\ fetchTimeout' = NoTimeout
           /\ NoAsync
           /\ CbRefresh(FALSE)
        \/ /\ t.kind = "host"            \* handleStartGame
           /\ canAnswer' = TRUE
           /\ isTransitioning' = FALSE
           /\ UNCHANGED <<isLoading, fetchInProgress, fetches, overlaps,
                          fetchTimeout>>
           /\ CbRefresh(FALSE)

\* A setTimeout callback runs after the teardown: setCanAnswer and
\* setIsTransitioning do nothing, fetchRoomDetails(true) sends its request.
OrphanTimeout(i) ==
  /\ Alive
  /\ ~Mounted
  /\ i \in 1..Len(timers)
  /\ CanFire(i)
  /\ timers' = RemoveAt(timers, i)
  /\ last' = Note("orphan-timer")
  /\ IF timers[i].kind = "transition"
     THEN /\ Len(fetches) < MaxFetches
          /\ fetches' = Append(fetches, Request(timers[i].cl))
          /\ fetchInProgress' = TRUE
     ELSE UNCHANGED <<fetches, fetchInProgress>>
  /\ UNCHANGED <<server, room, roundResults, hasAnswered, canAnswer,
                 isTransitioning, isLoading, error, cbResults, submit, crashed,
                 failures, overlaps, pollVars, pollRest>>

\* The continuation of fetchRoomDetails runs after the teardown, on a
\* response or on a transport error: the setters do nothing, the 3 s timer of
\* a new question is created, the finally block clears the ref.
OrphanSettled(i) ==
  /\ Alive
  /\ ~Mounted
  /\ i \in 1..Len(fetches)
  /\ LET rearm == fetches[i].resp # Pending /\ fetches[i].rearm
     IN /\ rearm => Len(timers) < MaxTimers
        /\ timers' = IF rearm
                     THEN Append(timers, Timer("canAnswer", NoClosure, NoResults))
                     ELSE timers
  /\ fetches' = RemoveAt(fetches, i)
  /\ fetchInProgress' = FALSE
  /\ last' = Note("other")
  /\ UNCHANGED <<server, room, roundResults, hasAnswered, canAnswer,
                 isTransitioning, isLoading, error, cbResults, submit, crashed,
                 failures, overlaps, pollVars, pollRest>>

NextLeave ==
  \/ PollClock
  \/ Mounted /\ \E f \in Factors : PollingInterval(f)
  \/ Mounted /\ ScheduleNextFetch
  \/ FetchTimeoutFires
  \/ \E i \in 1..MaxFetches : ServerRespond(i)
  \/ Mounted /\ \E i \in 1..MaxFetches : FetchRoomDetailsDone(i)
  \/ Mounted /\ \E i \in 1..MaxFetches : FetchRoomDetailsFailed(i)
  \/ ~isHost /\ ServerStartGame
  \/ Mounted /\ room.status = "waiting" /\ OnGameStarted
  \/ Mounted /\ HandleStartGame
  \/ ServerHostRequest
  \/ Mounted /\ HandleStartGameSuccess
  \/ Mounted /\ HostRequestFailure
  \/ \E i \in 1..MaxTimers : MountedTimeout(i)
  \/ Unmount
  \/ \E i \in 1..MaxTimers : OrphanTimeout(i)
  \/ \E i \in 1..MaxFetches : OrphanSettled(i)

SpecLeave == InitLeave /\ [][NextLeave]_vars

\* ------------------------------------------------------------- pure polling
\* No push event reaches the client: it learns of the game start and of a
\* new round from its polls alone.  Polls keep being issued and answered,
\* the clock advances and callbacks that are due run.  The players answer
\* and another client's host advances the round.
InitPull == InitRounds /\ ~isHost

\* The reading callback armed by the last detection has run.
ReadingOver == \A i \in 1..Len(timers) : timers[i].kind # "canAnswer"

\* The only caller of fetchRoomDetails here is the polling effect, whose
\* threshold is at least 0.8 * 15 s counted from the last completion: the
\* 3 s reading callback armed by that completion is due long before.
IntervalPoll ==
  /\ (PlayingBaseMs * MinFactor) \div 100 > ReadingDelayMs => ReadingOver
  /\ ScheduledPoll

NextPull ==
  \/ ClockTick
  \/ ServerStartGame
  \/ \E u \in Users, a \in BOOLEAN : ServerRecordAnswer(u, a)
  \/ ServerNextRound
  \/ \E a \in BOOLEAN : HandleAnswer(a)
  \/ ServerRecordSubmit
  \/ HandleAnswerSuccess
  \/ \E i \in 1..MaxFetches : ServerRespond(i)
  \/ IntervalPoll
  \/ \E i \in 1..MaxFetches : FetchRoomDetailsAt(i)
  \/ \E i \in 1..MaxTimers : TimeoutAt(i)

SpecPull ==
  /\ InitPull
  /\ [][NextPull]_vars
  /\ WF_vars(ClockTick)
  /\ WF_vars(\E i \in 1..MaxFetches : ServerRespond(i))
  /\ WF_vars(IntervalPoll)
  /\ WF_vars(\E i \in 1..MaxFetches : FetchRoomDetailsAt(i))
  /\ WF_vars(\E i \in 1..MaxTimers : TimeoutAt(i))
  /\ WF_vars(ServerRecordSubmit)
  /\ WF_vars(HandleAnswerSuccess)

\* ------------------------------------------------- the end of a transition
\* handleNextRound after the await when the response has no body:
\* `if (response.data)` skips the update and the timer; only the socket
\* event has been emitted.
HandleNextRoundNoBody ==
  /\ Alive
  /\ hostReq.kind = "next"
  /\ hostReq.stage = "ok"
  /\ emitted' = emitted + 1
  /\ hostReq' = NoHostRequest
  /\ last' = Note("other")
  /\ UNCHANGED <<server, room, roundResults, hasAnswered, canAnswer,
                 isTransitioning, isLoading, error, fetchInProgress, cbResults,
                 fetches, submit, timers, crashed, failures, overlaps, restVars,
                 now, questionStartTime, isHost>>

\* The server refuses a host request it cannot carry out (the game has
\* started already, or is over): the catch block runs.
HostRequestRefused ==
  /\ Alive
  /\ hostReq.stage = "sent"
  /\ \/ hostReq.kind = "start" /\ server.status # "waiting"
     \/ hostReq.kind = "next" /\ server.status # "playing"
  /\ isTransitioning' = FALSE
  /\ hostReq' = NoHostRequest
  /\ last' = Note("host-request-failed")
  /\ UNCHANGED <<server, room, roundResults, hasAnswered, canAnswer, isLoading,
                 error, fetchInProgress, fetches, submit, timers, crashed,
                 failures, overlaps, restVars, now, questionStartTime, isHost,
                 emitted>>
  /\ CbRefresh(FALSE)

\* The timed rounds, where the response of POST /rooms/:id/next-round may
\* come without a body.  The clock advances, callbacks that are due run,
\* the server carries out and answers every request, and continuations run.
NextTransit ==
  \/ NextRounds
  \/ HostRequestRefused
  \/ HandleNextRoundNoBody

SpecTransit ==
  /\ InitRounds
  /\ [][NextTransit]_vars
  /\ WF_vars(ClockTick)
  /\ WF_vars(\E i \in 1..MaxTimers : TimeoutAt(i))
  /\ WF_vars(ServerHostRequest \/ HostRequestRefused)
  /\ WF_vars(HandleStartGameSuccess)
  /\ WF_vars(HandleNextRoundSuccess \/ HandleNextRoundNoBody)
  /\ WF_vars(\E i \in 1..MaxFetches : ServerRespond(i))
  /\ WF_vars(\E i \in 1..MaxFetches : FetchRoomDetailsAt(i))

\* ------------------------------------------------ the snapshot as an object
\* The snapshot and response.data as JavaScript objects, field by field: a
\* field is absent (undefined) or carries a value.  Values are tokens; an
\* answers array may be empty.  In this part `room` is null or an object,
\* and `fetches` holds the response.data whose continuation has not run yet.
Fields ==
  {"status", "currentRound", "currentQuestion", "players", "host",
   "maxRounds", "answers"}

\* a property that is not there
Absent == -1

\* the array []
EmptyList == 0

\* status 'playing'
Playing == 2

\* the objects a response or a snapshot can be
Objects ==
  {[status |-> s, currentRound |-> r, currentQuestion |-> q, players |-> p,
    host |-> h, maxRounds |-> m, answers |-> a] :
     s \in {Absent, 1, Playing}, r \in {Absent, 1, 2}, q \in {Absent, 1, 2},
     p \in {Absent, 1}, h \in {Absent, 1}, m \in {Absent, 1},
     a \in {Absent, EmptyList, 1}}

NullSnapshot == [null |-> TRUE, obj |-> [f \in Fields |-> Absent]]

Snapshot(o) == [null |-> FALSE, obj |-> o]

\* {...prev, ...data}
Spread(prev, data) ==
  [f \in Fields |-> IF data[f] # Absent THEN data[f] ELSE prev[f]]

\* a merge that replaces the snapshot by response.data
ReplaceObject(prev, data) == Snapshot(data)

\* setRoom(prev => ...) of fetchRoomDetails:
\* {...prev, ...response.data, answers: response.data.answers || prev.answers}
MergeObject(prev, data) ==
  IF prev.null THEN Snapshot(data)
  ELSE Snapshot([Spread(prev.obj, data) EXCEPT
                   !["answers"] = IF data["answers"] # Absent
                                  THEN data["answers"]
                                  ELSE prev.obj["answers"]])

\* setRoom(prev => ({...prev, status: 'playing', currentRound: 1,
\* currentQuestion: data.currentQuestion})) of 'game-started'
GameStartedObject(prev, q) ==
  Snapshot([prev.obj EXCEPT !["status"] = Playing, !["currentRound"] = 1,
                            !["currentQuestion"] = q])

\* setRoom(prev => ({...prev, currentRound: data.currentRound,
\* currentQuestion: data.currentQuestion})) of 'round-started'
RoundStartedObject(prev, r, q) ==
  Snapshot([prev.obj EXCEPT !["currentRound"] = r, !["currentQuestion"] = q])

\* the response omits a field of players, host, maxRounds, answers that the
\* snapshot carries
OmitsKeptField(prev, data) ==
  \E f \in {"players", "host", "maxRounds", "answers"} :
    data[f] = Absent /\ prev.obj[f] # Absent

mergeRest ==
  <<server, roundResults, hasAnswered, canAnswer, isTransitioning, isLoading,
    error, fetchInProgress, cbResults, submit, timers, crashed, failures,
    overlaps, tierVars, auxVars>>

\* The component has mounted and holds no snapshot yet.
InitMerge ==
  /\ server = [status |-> "waiting", round |-> 1, answers |-> {}]
  /\ room = NullSnapshot
  /\ fetches = <<>>
  /\ roundResults = NoResults
  /\ hasAnswered = FALSE
  /\ canAnswer = FALSE
  /\ isTransitioning = FALSE
  /\ isLoading = TRUE
  /\ error = FALSE
  /\ fetchInProgress = FALSE
  /\ cbResults = FALSE
  /\ submit = NoSubmit
  /\ timers = <<>>
  /\ crashed = FALSE
  /\ failures = 0
  /\ overlaps = 0
  /\ last = Note("other")
  /\ elapsedMs = 0
  /\ elapsedTime = 0
  /\ feedback = "none"
  /\ AuxInit

\* GET /rooms/:id is answered with the object d.
ResponseArrives(d) ==
  /\ fetches = <<>>
  /\ fetches' = <<d>>
  /\ last' = Note("other")
  /\ UNCHANGED <<room, mergeRest>>

\* The continuation of fetchRoomDetails merges response.data.
ResponseMerged ==
  /\ fetches # <<>>
  /\ room' = MergeObject(room, fetches[1])
  /\ fetches' = <<>>
  /\ last' = IF OmitsKeptField(room, fetches[1]) THEN Note("partial-merge")
             ELSE Note("other")
  /\ UNCHANGED mergeRest

\* socketHandlers['game-started'] with data.currentQuestion = q
GameStartedMerged(q) ==
  /\ room' = GameStartedObject(room, q)
  /\ last' = Note("other")
  /\ UNCHANGED <<fetches, mergeRest>>

\* socketHandlers['round-started'] with data = {currentRound: r, currentQuestion: q}
RoundStartedMerged(r, q) ==
  /\ room' = RoundStartedObject(room, r, q)
  /\ last' = Note("other")
  /\ UNCHANGED <<fetches, mergeRest>>

NextMerge ==
  \/ \E d \in Objects : ResponseArrives(d)
  \/ ResponseMerged
  \/ \E q \in 1..2 : GameStartedMerged(q)
  \/ \E r \in 1..2, q \in 1..2 : RoundStartedMerged(r, q)

SpecMerge == InitMerge /\ [][NextMerge]_vars

\* ------------------------------------------------------------------ claims
\* A step in which the continuation of fetchRoomDetails merged a response.
PollMerged == Len(fetches') < Len(fetches) /\ failures' = failures

SameRound ==
  /\ room.status # "null"
  /\ room'.currentRound = room.currentRound
  /\ room'.currentQuestion = room.currentQuestion

\* C1: room.answers never holds two facts with the same (user, question,
\* round), whatever the interleaving of handleAnswer, the push echo and the
\* poll responses.
C1_OneFactPerKey ==
  \A u \in Users, q \in 1..MaxRounds, r \in 1..MaxRounds :
    CopiesOfKey(room.answers, u, q, r) <= 1

\* C2: a 'player-answered' delivery for a user whose fact for the current
\* question and round is already stored leaves room.answers, the answer count
\* and the yes count as they are, whatever answer value the delivery carries.
C2_DuplicateDeliveryIgnored ==
  \A u \in Users, a \in BOOLEAN :
    (/\ room.status # "null"
     /\ room.currentQuestion # NoQuestion
     /\ CopiesOfKey(room.answers, u, room.currentQuestion, room.currentRound) > 0)
    => LET after == PlayerAnswered(room, u, a)
           q == room.currentQuestion
           r == room.currentRound
       IN /\ after.answers = room.answers
          /\ CountFor(after.answers, q, r) = CountFor(room.answers, q, r)
          /\ YesCountFor(after.answers, q, r) = YesCountFor(room.answers, q, r)

\* C2 happens: a duplicate carrying the other answer value was delivered and
\* the stored fact still has the value of the first delivery.
C2_DifferingDuplicateDelivered ==
  /\ last.op = "player-answered"
  /\ last.dup
  /\ BagIn(Fact(last.u, room.currentQuestion, room.currentRound, ~last.a),
           room.answers)
  /\ CopiesOfKey(room.answers, last.u, room.currentQuestion, room.currentRound) = 1

\* C3: a fact stored by the push handler and then carried by a poll response
\* is counted once after the merge, and a fact held once (as a poll response
\* leaves it) and then delivered by push is still counted once.
C3_PushAndPollCountOnce ==
  /\ \A i \in 1..Len(fetches), u \in Users :
       LET s == fetches[i].resp
           d == ResponseData(s)
       IN (/\ s # Pending
           /\ d.status = "playing"
           /\ room.status # "null"
           /\ ServerAnswered(s, u, s.round)
           /\ CopiesOfKey(room.answers, u, d.currentQuestion, d.currentRound) > 0)
          => CopiesOfKey(MergeResponse(room, d).answers, u,
                         d.currentQuestion, d.currentRound) = 1
  /\ \A u \in Users, a \in BOOLEAN :
       (/\ room.status # "null"
        /\ room.currentQuestion # NoQuestion
        /\ CopiesOfKey(room.answers, u, room.currentQuestion,
                       room.currentRound) = 1)
       => CopiesOfKey(PlayerAnswered(room, u, a).answers, u,
                      room.currentQuestion, room.currentRound) = 1

\* C3 happens: the response merged last carried a fact the push handler had
\* stored, and that fact is now held once.
C3_PushedFactMerged ==
  /\ last.op = "poll-merge"
  /\ last.dup
  /\ \E u \in Users \ {Self} :
       CopiesOfKey(room.answers, u, room.currentQuestion, room.currentRound) = 1

\* C4: once the server has accepted the user's answer for the round and
\* hasAnswered is true, no step that stays in the round sets it back to false.
C4_HasAnsweredSticks ==
  [][(/\ hasAnswered
      /\ ServerAnswered(server, Self, room.currentRound)
      /\ SameRound)
     => hasAnswered']_vars

\* C5: while isTransitioning is true, the merge of a poll response changes
\* neither room.currentQuestion nor room.currentRound.
C5_TransitionIsolation ==
  [][(isTransitioning /\ PollMerged /\ room.status # "null")
     => /\ room'.currentRound = room.currentRound
        /\ room'.currentQuestion = room.currentQuestion]_vars

\* C6: the merge of a poll response that stays in the round removes no fact
\* from room.answers.
C6_MergeKeepsFacts ==
  [][(PollMerged /\ SameRound)
     => \A f \in BagToSet(room.answers) : BagIn(f, room'.answers)]_vars

\* C7: once roundResults is set its value does not change while the round
\* stays the same.
C7_RoundResultsImmutable ==
  [][(roundResults.set /\ SameRound) => roundResults' = roundResults]_vars

\* C8: no step lowers a player's points in the snapshot.
C8_PointsMonotone ==
  [][room.status # "null"
     => \A u \in Users : room'.points[u] >= room.points[u]]_vars

\* C9: the feedback of handleAnswer is no bonus (locked) below 3 s, bonus 3
\* from 3 s to 5 s inclusive, bonus 1 above 5 s up to 15 s inclusive and no
\* bonus above 15 s, at millisecond granularity.
C9_FeedbackTiers ==
  feedback # "none" =>
    /\ elapsedMs < 3000 => feedback = "locked"
    /\ (3000 <= elapsedMs /\ elapsedMs <= 5000) => feedback = "bonus3"
    /\ (5000 < elapsedMs /\ elapsedMs <= 15000) => feedback = "bonus1"
    /\ elapsedMs > 15000 => feedback = "nobonus"

\* C9 happens: a submission exactly 5.0 s after the question started got its
\* feedback.
C9_FeedbackAtBoundary == feedback # "none" /\ elapsedMs = 5000

\* C10: the tier Timer shows for the elapsed time it has just sampled is the
\* tier handleAnswer's feedback gives a submission at that time.
C10_LiveTierIsFeedbackTier ==
  (feedback # "none" /\ elapsedTime = elapsedMs)
    => BonusText(elapsedTime, canAnswer) = feedback

\* A step in which the catch block of fetchRoomDetails ran.
PollFailed == failures' = failures + 1

\* A step in which the catch block of handleAnswer ran.
AnswerFailed == submit.stage = "sent" /\ submit'.stage = "idle"

\* C13: at most one GET /rooms/:id is outstanding at any time.
C13_OneFetchOutstanding == Len(fetches) <= 1

\* C14: when a poll fails while a snapshot exists, room, roundResults and
\* hasAnswered are unchanged, the load error is not set and the transient
\* warning is reported.
C14_FailedPollKeepsSnapshot ==
  [][(PollFailed /\ room.status # "null")
     => /\ room' = room
        /\ roundResults' = roundResults
        /\ hasAnswered' = hasAnswered
        /\ error' = error
        /\ last'.op = "refresh-warning"]_vars

\* C15: a poll failure sets the load error if and only if no snapshot has been
\* obtained so far, and after a failed first load the view is not loading.
C15_LoadErrorIffNoSnapshot ==
  [][PollFailed
     => /\ error' = (error \/ room.status = "null")
        /\ room.status = "null" => ~isLoading']_vars

\* C19: when the POST of handleAnswer fails, hasAnswered is again what it was
\* before the submission, room.answers gains no fact and no submit-answer
\* event is emitted.
C19_FailedSubmitRolledBack ==
  [][AnswerFailed
     => /\ hasAnswered' = submit.before
        /\ room'.answers = room.answers
        /\ server' = server
        /\ \A a \in BOOLEAN : Emitted(Self, a)' = Emitted(Self, a)]_vars

\* C19 happens: a submission has just failed.
C19_SubmitFailed ==
  /\ last.op = "answer-failed"
  /\ submit.stage = "idle"
  /\ ~hasAnswered

\* C11: the answer controls are never enabled (canAnswer, not in transition,
\* not answered) while less than 3 s have passed since questionStartTime.
C11_ReadingLockout ==
  (/\ questionStartTime # NoTime
   /\ canAnswer
   /\ ~isTransitioning
   /\ ~hasAnswered)
  => (now - questionStartTime) * 1000 >= ReadingDelayMs

\* C12: questionStartTime does not change while the same question and round
\* stay current, and the merge of a fetch that reports the same question and
\* round resets neither questionStartTime nor canAnswer.
C12_QuestionStartTimeFixed ==
  [][(/\ room.status = "playing"
      /\ room.currentQuestion # NoQuestion
      /\ SameRound)
     => /\ questionStartTime' = questionStartTime
        /\ PollMerged => canAnswer' = canAnswer]_vars

\* C18: a call of handleStartGame or handleNextRound by a user who is not the
\* host issues no request and no socket emit and leaves room, isTransitioning,
\* roundResults and hasAnswered unchanged.
C18_NonHostRefused ==
  [][(~isHost /\ last'.op \in {"handleStartGame", "handleNextRound"})
     => /\ hostReq' = hostReq
        /\ fetches' = fetches
        /\ emitted' = emitted
        /\ room' = room
        /\ isTransitioning' = isTransitioning
        /\ roundResults' = roundResults
        /\ hasAnswered' = hasAnswered]_vars

\* C18 happens: a user who is not the host has just called handleNextRound
\* with the results of the round on screen.
C18_NonHostCalled ==
  /\ ~isHost
  /\ last.op = "handleNextRound"
  /\ roundResults.set
  /\ hostReq.kind = "none"

\* A step in which the catch block of handleNextRound ran.
NextRoundFailed ==
  /\ hostReq.kind = "next"
  /\ hostReq.stage = "sent"
  /\ hostReq'.kind = "none"

\* C20: when the request of handleNextRound fails, room.currentRound,
\* roundResults and hasAnswered are what they were before the attempt and
\* isTransitioning is false.
C20_FailedAdvanceReverted ==
  [][NextRoundFailed
     => /\ room'.currentRound = hostReq.round
        /\ roundResults' = hostReq.rr
        /\ hasAnswered' = hostReq.has
        /\ ~isTransitioning']_vars

\* C16: after a fetch has completed, with a response or with a failure,
\* another scheduled (non-forced) poll is eventually issued.
C16_NextPollIssued ==
  (last.op \in {"poll-done", "poll-failed"}) ~> (last.op = "scheduled-poll")

\* C16 happens: a scheduled poll has been issued after a poll had failed.
C16_PolledAfterFailure ==
  /\ last.op = "scheduled-poll"
  /\ failures > 0
  /\ room.status # "null"
  /\ ~isTransitioning

\* C17: no step issues a POST /rooms/:id/join while the room is private and
\* the passcode is empty, and a click on a join control of a private room
\* with a passcode issues exactly one.
C17_NoJoinWithoutPasscode ==
  [][roomType = "private"
     => /\ passcode = "" => joinCalls' = joinCalls
        /\ (passcode # "" /\ isJoining' /\ ~isJoining)
             => joinCalls' = Append(joinCalls, passcode)]_vars

\* a push event is delivered to its handler
PushDelivered ==
  \/ \E e \in {"player-joined", "player-left", "host-changed"} : OnMembershipEvent(e)
  \/ OnGameStarted
  \/ \E r \in 1..MaxRounds : OnRoundStarted(r)
  \/ \E u \in Users, a \in BOOLEAN : OnPlayerAnswered(u, a)
  \/ \E r \in 1..MaxRounds : OnAllPlayersAnswered(r)

\* C22: no push event makes a handler, a state updater or the render throw,
\* in whatever state and order it is delivered.
C22_PushNeverThrows == [][PushDelivered => ~crashed']_vars

\* C22, the case of 'player-answered' in a loaded room.
C22_PlayerAnsweredAbsorbed ==
  [][(room.status # "null" /\ \E u \in Users, a \in BOOLEAN : OnPlayerAnswered(u, a))
       => ~crashed']_vars

\* C26: every 'player-joined', 'player-left', 'host-changed', 'game-started'
\* and 'round-started' issues a forced fetch in the step that receives it.
C26_PushForcesFetch ==
  [][(\/ \E e \in {"player-joined", "player-left", "host-changed"} : OnMembershipEvent(e)
      \/ room.status # "null" /\ OnGameStarted
      \/ room.status # "null" /\ \E r \in 1..MaxRounds : OnRoundStarted(r))
       => Len(fetches') = Len(fetches) + 1]_vars

\* C27: a non-forced poll issues a request only while no fetch is
\* outstanding, no transition is in progress and the last fetch completed at
\* least 3 s ago.
C27_ScheduledPollGuarded ==
  [][last'.op = "scheduled-poll"
       => /\ Len(fetches) = 0
          /\ ~isTransitioning
          /\ sinceUpdate >= DebounceMs]_vars

\* C27 for a snapshot that no transition is changing.
C27_NoPollOnOutstandingFetch ==
  [][(last'.op = "scheduled-poll" /\ ~isTransitioning) => Len(fetches) = 0]_vars

\* C29: a failed fetch leaves lastUpdated and lastPollingUpdate, and with
\* them the time the backoff is computed from, as they were.
C29_FailureKeepsTimestamps ==
  [][last'.op = "poll-failed" => sinceUpdate' = sinceUpdate]_vars

\* 0.8 * base and 1.2 * 60 s
LeastInterval(status) ==
  ((IF status = "playing" THEN PlayingBaseMs ELSE WaitingBaseMs) * MinFactor) \div 100

GreatestInterval == (MaxIntervalMs * MaxFactor) \div 100

IntervalPollIssued == \E f \in Factors : PollingInterval(f)

\* C28: for every status and random factor the threshold of the interval
\* lies between 0.8 * base and 72 s, and the interval issues no poll sooner
\* than 0.8 * base after the last fetch completed.
C28_IntervalBounds ==
  /\ [](\A status \in {"waiting", "playing", "completed"}, f \in Factors :
          /\ NextInterval(status, sinceUpdate, f) >= LeastInterval(status)
          /\ NextInterval(status, sinceUpdate, f) <= GreatestInterval)
  /\ [][IntervalPollIssued => sinceUpdate >= LeastInterval(room.status)]_vars

\* C28: the interval has polled a playing room 20 s after the last fetch.
C28_PolledWhilePlaying ==
  /\ last.op = "scheduled-poll"
  /\ room.status = "playing"
  /\ sinceUpdate = 4 * IntervalMs

\* the results just computed: set by the poll, or held by the timer that
\* 'player-answered' created
ComputedResults ==
  IF last'.op = "results-computed" THEN roundResults'
  ELSE timers'[Len(timers')].res

ResultsComputed == last'.op \in {"results-computed", "results-scheduled"}

\* C24: results computed locally count the yes facts and the no facts of the
\* current (question, round), and the two counts add up to the number of
\* players.
C24_ResultsSplit ==
  [][ResultsComputed
       => LET q == room'.currentQuestion
              r == room'.currentRound
          IN /\ ComputedResults.yesCount = YesCountFor(room'.answers, q, r)
             /\ ComputedResults.noCount = NoCountFor(room'.answers, q, r)
             /\ ComputedResults.yesCount + ComputedResults.noCount
                  = Cardinality(players')]_vars

\* C24: results with a yes and a no have been computed.
C24_MixedResults ==
  /\ last.op \in {"results-computed", "results-scheduled"}
  /\ \/ roundResults.yesCount > 0 /\ roundResults.noCount > 0
     \/ \E i \in 1..Len(timers) :
          timers[i].res.yesCount > 0 /\ timers[i].res.noCount > 0

\* every current player has a fact of the current (question, round)
EveryPlayerAnswered(rm, ps) ==
  \A u \in ps : CopiesOfKey(rm.answers, u, rm.currentQuestion, rm.currentRound) > 0

\* C30: results are computed locally only when every current player has a
\* fact of the current (question, round), and a poll that finds every current
\* player's fact computes them.
C30_ResultsIffAllCurrentAnswered ==
  [][/\ ResultsComputed => EveryPlayerAnswered(room', players')
     /\ (last'.op = "poll-done" /\ ~roundResults.set /\ ~roundResults'.set
          /\ room'.status = "playing")
          => ~EveryPlayerAnswered(room', players')]_vars

\* C30, its first half
C30_NotBeforeAllCurrentAnswered ==
  [][ResultsComputed => EveryPlayerAnswered(room', players')]_vars

\* C21: after the teardown no setTimeout callback of the room runs, no
\* request is issued and no scheduled poll is pending.
C21_NoOrphanTimers ==
  [][(~Mounted /\ ~Mounted')
       => /\ last'.op # "orphan-timer"
          /\ Len(fetches') <= Len(fetches)
          /\ ~fetchTimeout'.set]_vars

\* C21, the requests alone
C21_NoFetchAfterTeardown ==
  [][(~Mounted /\ ~Mounted') => Len(fetches') <= Len(fetches)]_vars

\* the snapshot shows the playing round r and its question
SnapshotShows(r) ==
  /\ room.status = "playing"
  /\ room.currentRound = r
  /\ room.currentQuestion = QuestionOf(r)

\* C23: with polls alone the snapshot comes to show the round the server
\* plays, unless the server has left that round before a poll saw it; the
\* step that detects a new question starts its reading period (canAnswer
\* false, questionStartTime now, a 3 s timer), and answering is enabled
\* when the 3 s are over.
C23_PollingCatchesUp ==
  /\ \A r \in 1..MaxRounds :
       (server.status = "playing" /\ server.round = r)
         ~> (SnapshotShows(r) \/ server.round # r)
  /\ [][room'.currentQuestion # room.currentQuestion
          => /\ ~canAnswer'
             /\ questionStartTime' = now
             /\ \E i \in 1..Len(timers') :
                  /\ timers'[i].kind = "canAnswer"
                  /\ timers'[i].at = now + ReadingDelay]_vars
  /\ [][(~canAnswer /\ canAnswer') => now = questionStartTime + ReadingDelay]_vars
  /\ \A r \in 1..MaxRounds : (SnapshotShows(r) /\ ~canAnswer) ~> canAnswer

\* C23: a poll has brought the second round and its reading period is over.
C23_SecondRoundByPoll ==
  /\ SnapshotShows(2)
  /\ canAnswer
  /\ now = questionStartTime + ReadingDelay

\* every jitter factor finds the poll due
PollOverdue ==
  \A f \in Factors : sinceUpdate > NextInterval(room.status, sinceUpdate, f)

\* the step that ends a transition of the mounted room
TransitionEnds == Mounted /\ isTransitioning /\ ~isTransitioning'

\* C25: a poll that fell due during a transition is made up for when the
\* transition ends: the step that ends a transition with a poll overdue and
\* no request outstanding issues the request whose result is then applied.
C25_SkippedPollMadeUp ==
  [][(TransitionEnds /\ PollOverdue /\ ~fetchInProgress)
       => Len(fetches') > Len(fetches)]_vars

\* C25: a response that arrives during a transition is held back: the
\* snapshot does not change while isTransitioning is true.
C25_ResponseHeldBack ==
  [][(Mounted /\ isTransitioning /\ PollMerged) => room' = room]_vars

\* C31: while isTransitioning is true roundResults does not go from null to
\* a summary, whichever handler takes the step.
C31_NoResultsInTransition ==
  [][(isTransitioning /\ ~roundResults.set) => ~roundResults'.set]_vars

\* C31: the continuation of fetchRoomDetails does not set a summary while
\* isTransitioning is true.
C31_NoPollResultsInTransition ==
  [][(isTransitioning /\ ~roundResults.set /\ PollMerged) => ~roundResults'.set]_vars

\* C31: the delayed write of 'player-answered' does not set a summary while
\* isTransitioning is true.
C31_NoDelayedResultsInTransition ==
  [][(isTransitioning /\ ~roundResults.set /\ Len(timers') < Len(timers))
       => ~roundResults'.set]_vars

\* C36: every fact of the snapshot is an answer the server recorded for
\* that user, question and round.
C36_FactsCarryTheirRound ==
  room.status # "null" => \A f \in BagToSet(room.answers) : f \in server.answers

\* C36: a 'player-answered' delivery stores a fact the server recorded.
C36_DeliveredFactIsRecorded ==
  [][\A u \in Users, a \in BOOLEAN :
       (OnPlayerAnswered(u, a) /\ room' # room)
         => \A f \in BagToSet(room'.answers) :
              BagIn(f, room.answers) \/ f \in server.answers]_vars

\* C37: a summary that is set describes the question of the snapshot.
C37_ResultsOfCurrentQuestion ==
  (room.status = "playing" /\ roundResults.set)
    => roundResults.question = room.currentQuestion

\* C37: the delayed write of 'player-answered' sets a summary of the
\* question of the snapshot.
C37_DelayedResultsOfCurrentQuestion ==
  [][(Len(timers') < Len(timers) /\ ~roundResults.set /\ roundResults'.set)
       => roundResults'.question = room'.currentQuestion]_vars

\* C38: while the game is in progress the round of the snapshot does not
\* decrease.
C38_RoundNeverDecreases ==
  [][(room.status = "playing" /\ room'.status = "playing")
       => room'.currentRound >= room.currentRound]_vars

\* C38: the continuation of fetchRoomDetails does not lower the round.
C38_PollKeepsRound ==
  [][(room.status = "playing" /\ room'.status = "playing" /\ PollMerged)
       => room'.currentRound >= room.currentRound]_vars

\* a setTimeout callback ends the transition
TimerEndsTransition ==
  isTransitioning /\ ~isTransitioning' /\ Len(timers') < Len(timers)

\* the callback of a stimulus that came less than 3 s before now is pending
LaterStimulusPending(ts) ==
  \E i \in 1..Len(ts) :
    /\ ts[i].kind \in {"transition", "host"}
    /\ now < ts[i].at
    /\ ts[i].at < now + ReadingDelay

\* C35: the callback that ends a transition is that of the latest stimulus:
\* when it runs, no callback of a stimulus that followed within 3 s is
\* still pending.
C35_LaterTransitionNotCutShort ==
  [][TimerEndsTransition => ~LaterStimulusPending(timers')]_vars

\* C34: a transition ends: once isTransitioning is true it becomes false
\* again, unless the client leaves the room (or the clock of the model has
\* run out).
C34_TransitionEnds ==
  isTransitioning ~> (~isTransitioning \/ crashed \/ now = MaxNow)

\* C34: while isTransitioning is true something that ends it is under way:
\* a host request, or a callback that clears the flag or leaves the room.
C34_TransitionHasExit ==
  (isTransitioning /\ Alive)
    => \/ hostReq.kind # "none"
       \/ \E i \in 1..Len(timers) :
            timers[i].kind \in {"transition", "host", "navigate"}

\* C32: a snapshot that has been obtained is never set back to null, by a
\* failed poll, a push event, a failed answer or any other step taken
\* while the room view is shown.
C32_SnapshotNeverReset ==
  [][room.status # "null" => room'.status # "null"]_vars

\* C32: a poll has just failed on a loaded snapshot of a playing room that
\* holds answers, and the snapshot is still there.
C32_SnapshotSurvivedFailure ==
  /\ last.op = "refresh-warning"
  /\ room.status = "playing"
  /\ room.answers # EmptyBag

\* a push handler has changed the snapshot
PushMergedObject == fetches' = fetches /\ room' # room

\* C33: 'game-started' and 'round-started' change no field other than
\* status, currentRound and currentQuestion, and the merge of a response
\* leaves every field that the response omits as it was.
C33_MergesKeepFields ==
  [][/\ PushMergedObject
          => \A f \in Fields \ {"status", "currentRound", "currentQuestion"} :
               room'.obj[f] = room.obj[f]
     /\ Len(fetches') < Len(fetches)
          => \A f \in Fields :
               fetches[1][f] = Absent => room'.obj[f] = room.obj[f]]_vars

\* C33: a response that omits one of players, host, maxRounds and answers
\* has been merged, and the snapshot carries all four.
C33_PartialResponseMerged ==
  /\ last.op = "partial-merge"
  /\ \A f \in {"players", "host", "maxRounds"} : room.obj[f] = 1
  /\ room.obj["answers"] = 1

\* C39: the push handler that creates the snapshot gives it a players list.
C39_PushedSnapshotHasPlayers ==
  [][(room.null /\ ~room'.null /\ PushMergedObject)
       => room'.obj["players"] # Absent]_vars

====
